---- MODULE Spec2Model ----
(***************************************************************************)
(* Booking Orchestration Core of the orchestrator package.                 *)
(*                                                                         *)
(* Conversation state machine (agent/stateMachine.ts): the pure transition *)
(* function nextState over StateMachineState, driven by one call session   *)
(* (services/orchestrator.ts, processTranscript).                          *)
(*                                                                         *)
(* Calendar reservation engine (calendar/service.ts): the per-manager      *)
(* event and hold stores under getAvailability, placeHold and createEvent, *)
(* with lazy expiry of holds.                                              *)
(*                                                                         *)
(* Representation of TypeScript values:                                    *)
(*   - an optional field that is absent holds Undefined;                   *)
(*   - optional booleans hold "true" / "false" / Undefined, so that the    *)
(*     code's truthiness tests and its `=== true` tests stay distinct;     *)
(*   - an RFC 3339 time string is TimeStr(i); "" is the empty string,      *)
(*     which JavaScript treats as falsy;                                   *)
(*   - input.text is the set of keyword classes its lower-cased form       *)
(*     contains (every test the code makes on the text is an `includes` of *)
(*     one of these keywords);                                             *)
(*   - booking_intent is {} when undefined and {intent} when defined.      *)
(***************************************************************************)
EXTENDS Integers, FiniteSets, Sequences, TLC

\* ------------------------------------------------------------------ bounds
\* number of distinct time strings a caller may select
MaxTime == 1
\* largest number of keyword classes one utterance contains
MaxKeywords == 2

\* last point of the grid of start and end times offered to the calendar
MaxGrid == 4
\* number of holds and events stored in one run
MaxReservations == 2
\* number of clock steps in one run
MaxTicks == 1
\* number of attempts recorded in one run
MaxAttempts == 3
\* number of steps of the attempt scheduler's clock in one run
MaxClockSteps == 2
\* number of bookings POST /book creates in one run
MaxBookings == 1

\* ------------------------------------------------------------ value domains
Undefined == "undefined"

Truthy(v) == v \notin {Undefined, "false", ""}

OptBool == {Undefined, "false", "true"}

State ==
    {"IdentifyContact", "ConsentGate", "Qualify", "ProposeTime", "Confirm",
     "OptOut", "Transfer", "Voicemail", "End"}

Intent ==
    {Undefined, "identify", "consent", "qualify", "propose", "confirm",
     "opt_out", "transfer", "voicemail", "disqualify"}

NeedValues == {Undefined, "high", "medium", "low"}

TimingValues == {Undefined, "this_quarter", "next_quarter", "later"}

BudgetValues == {Undefined, "present", "unknown", "absent"}

TimeStr(i) == "2024-03-15T19:00:00.000Z#" \o ToString(i)

TimeValues == {Undefined, ""} \cup {TimeStr(i) : i \in 1..MaxTime}

\* keyword classes of the lower-cased utterance
KwIdentify == "this is|calling from"
KwContactName == "<contact_name>"
KwPurpose == "schedule|meeting|discovery"
KwConsent == "yes|sure|ok"
KwRecord == "record"
KwAuthority == "decision|authority|decision maker"
KwUrgent == "urgent|immediately|asap"
KwNextQuarter == "next quarter|q2|q3|q4"

Keywords ==
    {KwIdentify, KwContactName, KwPurpose, KwConsent, KwRecord,
     KwAuthority, KwUrgent, KwNextQuarter}

NoText == {}

Texts == {t \in SUBSET Keywords : Cardinality(t) <= MaxKeywords}

\* ConversationSlots with every key absent
NoSlots ==
    [authority |-> Undefined, need |-> Undefined, timing |-> Undefined,
     budget_indicator |-> Undefined, confirmed_date |-> Undefined,
     confirmed_time |-> Undefined, pain_stated |-> Undefined]

\* MandatoryLines with every key absent
NoLines ==
    [identification |-> Undefined, purpose |-> Undefined,
     consent_to_proceed |-> Undefined, recording_consent |-> Undefined]

\* ConversationContext values: the test suite's context with recording
\* required, and the context createCallSession builds
ConversationContext ==
    {[call_id |-> "call-1", lead_id |-> "lead-1", contact_name |-> "John Doe",
      recording_required |-> "true"],
     [call_id |-> "call-1", lead_id |-> "lead-1", contact_name |-> Undefined,
      recording_required |-> "false"]}

\* ---------------------------------------------------------- state machine
initialState(context) ==
    [current |-> "IdentifyContact",
     slots |-> NoSlots,
     mandatory_lines |-> NoLines,
     context |-> context,
     booking_intent |-> {},
     history |-> <<"IdentifyContact">>]

checkMandatoryLines(state, input) ==
    LET text == input.text
        l0 == state.mandatory_lines
        l1 == IF /\ state.current \in {"IdentifyContact", "ConsentGate"}
                 /\ \/ KwIdentify \in text
                    \/ /\ Truthy(state.context.contact_name)
                       /\ KwContactName \in text
              THEN [l0 EXCEPT !.identification = "true"] ELSE l0
        l2 == IF /\ state.current \in {"ConsentGate", "Qualify"}
                 /\ KwPurpose \in text
              THEN [l1 EXCEPT !.purpose = "true"] ELSE l1
        l3 == IF /\ state.current = "ConsentGate"
                 /\ (input.intent = "consent" \/ KwConsent \in text)
              THEN [l2 EXCEPT !.consent_to_proceed = "true"] ELSE l2
        l4 == IF /\ Truthy(state.context.recording_required)
                 /\ state.current \in {"ConsentGate", "Qualify"}
                 /\ input.intent = "consent"
                 /\ KwRecord \in text
              THEN [l3 EXCEPT !.recording_consent = "true"] ELSE l3
    IN  l4

\* the assignment made whether or not the input carries the key
Override_unconditional(old, new) == new

Override(old, new) == IF new # Undefined THEN new ELSE old

updateSlots(currentSlots, input) ==
    LET s0 == [k \in DOMAIN currentSlots |->
                 Override(currentSlots[k], input.slots[k])]
        s1 == IF KwAuthority \in input.text
              THEN [s0 EXCEPT !.authority = "true"] ELSE s0
        s2 == IF KwUrgent \in input.text
              THEN [s1 EXCEPT !.timing = "this_quarter"] ELSE s1
        s3 == IF KwNextQuarter \in input.text
              THEN [s2 EXCEPT !.timing = "next_quarter"] ELSE s2
    IN  s3

\* isQualified with the pain_stated requirement of medium need dropped
isQualified_mediumWithoutPain(slots) ==
    /\ slots.authority = "true"
    /\ slots.need \in {"high", "medium"}
    /\ slots.timing \in {"this_quarter", "next_quarter"}
    /\ \/ slots.budget_indicator = "present"
       \/ /\ slots.budget_indicator = "unknown"
          /\ slots.authority = "true"
          /\ slots.need = "high"

isQualified(slots) ==
    /\ slots.authority = "true"
    /\ \/ slots.need = "high"
       \/ (slots.need = "medium" /\ slots.pain_stated = "true")
    /\ slots.timing \in {"this_quarter", "next_quarter"}
    /\ \/ slots.budget_indicator = "present"
       \/ /\ slots.budget_indicator = "unknown"
          /\ slots.authority = "true"
          /\ slots.need = "high"

\* the result of the switch: the locals next, updatedSlots, bookingIntent and
\* history as the return statement reads them
Stay(state, slots) ==
    [next |-> state.current, slots |-> slots,
     booking_intent |-> state.booking_intent, history |-> state.history]

\* next = target; history.push(target)
Goto(state, slots, target) ==
    [next |-> target, slots |-> slots,
     booking_intent |-> state.booking_intent,
     history |-> Append(state.history, target)]

caseIdentifyContact(state, input, lines, slots) ==
    IF Truthy(lines.identification) /\ Truthy(lines.purpose)
    THEN Goto(state, slots, "ConsentGate")
    ELSE IF input.intent = "transfer" THEN Goto(state, slots, "Transfer")
    ELSE IF input.intent = "voicemail" THEN Goto(state, slots, "Voicemail")
    ELSE Stay(state, slots)

\* caseConsentGate with the recording-consent check left out
caseConsentGate_noRecordingCheck(state, input, lines, slots) ==
    IF ~Truthy(lines.consent_to_proceed) THEN Stay(state, slots)
    ELSE IF input.intent = "opt_out" THEN Goto(state, slots, "OptOut")
    ELSE IF input.intent = "transfer" THEN Goto(state, slots, "Transfer")
    ELSE Goto(state, slots, "Qualify")

caseConsentGate(state, input, lines, slots) ==
    IF ~Truthy(lines.consent_to_proceed) THEN Stay(state, slots)
    ELSE IF /\ Truthy(state.context.recording_required)
            /\ ~Truthy(lines.recording_consent)
    THEN Stay(state, slots)
    ELSE IF input.intent = "opt_out" THEN Goto(state, slots, "OptOut")
    ELSE IF input.intent = "transfer" THEN Goto(state, slots, "Transfer")
    ELSE Goto(state, slots, "Qualify")

\* caseQualify with the qualification test ahead of the disqualify branch
caseQualify_qualifiedFirst(state, input, lines, slots) ==
    IF input.intent = "opt_out" THEN Goto(state, slots, "OptOut")
    ELSE IF input.intent = "transfer" THEN Goto(state, slots, "Transfer")
    ELSE IF isQualified(slots) THEN Goto(state, slots, "ProposeTime")
    ELSE IF input.intent = "disqualify" THEN Goto(state, slots, "End")
    ELSE Stay(state, slots)

caseQualify(state, input, lines, slots) ==
    IF input.intent = "opt_out" THEN Goto(state, slots, "OptOut")
    ELSE IF input.intent = "transfer" THEN Goto(state, slots, "Transfer")
    ELSE IF input.intent = "disqualify" THEN Goto(state, slots, "End")
    ELSE IF isQualified(slots) THEN Goto(state, slots, "ProposeTime")
    ELSE Stay(state, slots)

\* caseProposeTime accepting a confirm intent with a time but no explicit
\* confirmation
caseProposeTime_withoutExplicit(state, input, lines, slots) ==
    IF input.intent = "opt_out" THEN Goto(state, slots, "OptOut")
    ELSE IF input.intent = "transfer" THEN Goto(state, slots, "Transfer")
    ELSE IF input.intent = "confirm" /\ Truthy(input.selected_time)
    THEN Goto(state,
              [slots EXCEPT !.confirmed_time = input.selected_time,
                            !.confirmed_date = input.selected_time],
              "Confirm")
    ELSE Stay(state, slots)

caseProposeTime(state, input, lines, slots) ==
    IF input.intent = "opt_out" THEN Goto(state, slots, "OptOut")
    ELSE IF input.intent = "transfer" THEN Goto(state, slots, "Transfer")
    ELSE IF /\ input.intent = "confirm"
            /\ Truthy(input.selected_time)
            /\ Truthy(input.explicit_confirmation)
    THEN Goto(state,
              [slots EXCEPT !.confirmed_time = input.selected_time,
                            !.confirmed_date = input.selected_time],
              "Confirm")
    ELSE Stay(state, slots)

\* the BookingIntent built without the date and time of the slots
newBookingIntent_withoutDate(state, slots) ==
    [booking_id |-> "booking-" \o state.context.call_id,
     lead_id |-> state.context.lead_id,
     confirmed_date |-> Undefined,
     confirmed_time |-> Undefined,
     qualification_flags |-> slots,
     explicit_confirmation |-> "true"]

\* the BookingIntent the Confirm case builds
newBookingIntent(state, slots) ==
    [booking_id |-> "booking-" \o state.context.call_id,
     lead_id |-> state.context.lead_id,
     confirmed_date |-> slots.confirmed_date,
     confirmed_time |-> slots.confirmed_time,
     qualification_flags |-> slots,
     explicit_confirmation |-> "true"]

\* caseConfirm taking an inferred confirm intent for an explicit confirmation
caseConfirm_inferredAffirmation(state, input, lines, slots) ==
    IF /\ (Truthy(input.explicit_confirmation) \/ input.intent = "confirm")
       /\ Truthy(slots.confirmed_time)
       /\ Truthy(slots.confirmed_date)
    THEN [next |-> "End", slots |-> slots,
          booking_intent |-> {newBookingIntent(state, slots)},
          history |-> Append(state.history, "End")]
    ELSE IF input.intent = "opt_out" THEN Goto(state, slots, "OptOut")
    ELSE IF input.intent = "transfer" THEN Goto(state, slots, "Transfer")
    ELSE Stay(state, slots)

\* caseConfirm booking as soon as the confirmed date and time are populated
caseConfirm_autoConfirm(state, input, lines, slots) ==
    IF Truthy(slots.confirmed_time) /\ Truthy(slots.confirmed_date)
    THEN [next |-> "End", slots |-> slots,
          booking_intent |-> {newBookingIntent(state, slots)},
          history |-> Append(state.history, "End")]
    ELSE IF input.intent = "opt_out" THEN Goto(state, slots, "OptOut")
    ELSE IF input.intent = "transfer" THEN Goto(state, slots, "Transfer")
    ELSE Stay(state, slots)

caseConfirm(state, input, lines, slots) ==
    IF /\ Truthy(input.explicit_confirmation)
       /\ Truthy(slots.confirmed_time)
       /\ Truthy(slots.confirmed_date)
    THEN [next |-> "End", slots |-> slots,
          booking_intent |-> {newBookingIntent(state, slots)},
          history |-> Append(state.history, "End")]
    ELSE IF input.intent = "opt_out" THEN Goto(state, slots, "OptOut")
    ELSE IF input.intent = "transfer" THEN Goto(state, slots, "Transfer")
    ELSE Stay(state, slots)

\* the terminal cases still honouring a transfer intent
caseTerminal_transfer(state, input, lines, slots) ==
    IF input.intent = "transfer" /\ state.current # "Transfer"
    THEN Goto(state, slots, "Transfer")
    ELSE Stay(state, slots)

\* case 'OptOut', 'Transfer', 'Voicemail', 'End': no transitions
caseTerminal(state, input, lines, slots) == Stay(state, slots)

nextState(state, input) ==
    LET updatedMandatoryLines == checkMandatoryLines(state, input)
        updatedSlots == updateSlots(state.slots, input)
        r == CASE state.current = "IdentifyContact" ->
                    caseIdentifyContact(state, input, updatedMandatoryLines, updatedSlots)
               [] state.current = "ConsentGate" ->
                    caseConsentGate(state, input, updatedMandatoryLines, updatedSlots)
               [] state.current = "Qualify" ->
                    caseQualify(state, input, updatedMandatoryLines, updatedSlots)
               [] state.current = "ProposeTime" ->
                    caseProposeTime(state, input, updatedMandatoryLines, updatedSlots)
               [] state.current = "Confirm" ->
                    caseConfirm(state, input, updatedMandatoryLines, updatedSlots)
               [] OTHER ->
                    caseTerminal(state, input, updatedMandatoryLines, updatedSlots)
    IN  [current |-> r.next,
         slots |-> r.slots,
         mandatory_lines |-> updatedMandatoryLines,
         context |-> state.context,
         booking_intent |-> r.booking_intent,
         history |-> r.history]

isTerminalState(s) == s \in {"OptOut", "Transfer", "Voicemail", "End"}

\* the argument left with the history array the function pushes to
argumentAfter_sharedHistory(state, returned) ==
    [state EXCEPT !.history = returned.history]

\* the StateMachineState object passed to nextState as the call that returned
\* `returned` leaves it: the function assigns only to locals and to its own
\* copies of the argument's parts ({ ...state.mandatory_lines },
\* { ...currentSlots }, [...state.history]), so every field keeps its value
argumentAfter(state, returned) ==
    [current |-> state.current,
     slots |-> state.slots,
     mandatory_lines |-> state.mandatory_lines,
     context |-> state.context,
     booking_intent |-> state.booking_intent,
     history |-> state.history]

\* ------------------------------------------------------------------ inputs
\* StateMachineInput with every field absent
NoInput ==
    [intent |-> Undefined, text |-> NoText, slots |-> NoSlots,
     explicit_confirmation |-> Undefined, selected_time |-> Undefined]

\* inputs that carry an intent tag, a confirmation flag and a selected time
SignalInputs ==
    {[NoInput EXCEPT !.intent = i, !.explicit_confirmation = c,
                     !.selected_time = t] :
        i \in Intent, c \in OptBool, t \in TimeValues}

\* inputs that carry an utterance, untagged or tagged as consent, and the
\* utterances that give consent while asking to opt out or to be transferred
UtteranceInputs ==
    {[NoInput EXCEPT !.intent = i, !.text = t] :
        i \in {Undefined, "consent"}, t \in Texts}
    \cup
    {[NoInput EXCEPT !.intent = i, !.text = {KwConsent}] :
        i \in {"opt_out", "transfer"}}

\* a confirmed date a caller writes into the slots directly
SuppliedDate == TimeStr(0)

\* explicit slot values a caller supplies: the qualifying and the
\* disqualifying record of the test suite, the qualification boundary case
\* (medium need, no pain stated) and single-key corrections
SlotUpdates ==
    {[NoSlots EXCEPT !.authority = "true", !.need = "high",
                     !.timing = "this_quarter", !.budget_indicator = "present"],
     [NoSlots EXCEPT !.authority = "true", !.need = "medium",
                     !.pain_stated = "false", !.timing = "this_quarter",
                     !.budget_indicator = "present"],
     [NoSlots EXCEPT !.pain_stated = "true"],
     [NoSlots EXCEPT !.authority = "false", !.need = "low", !.timing = "later"],
     [NoSlots EXCEPT !.confirmed_date = ""],
     [NoSlots EXCEPT !.confirmed_date = SuppliedDate]}

SlotInputs ==
    {[NoInput EXCEPT !.intent = i, !.slots = s] :
        i \in {Undefined, "disqualify"}, s \in SlotUpdates}

\* inputs whose explicit slot value and whose text speak about the same slot
ConflictingInputs ==
    {[NoInput EXCEPT !.slots = [NoSlots EXCEPT !.timing = "later"],
                     !.text = {KwUrgent}],
     [NoInput EXCEPT !.slots = [NoSlots EXCEPT !.authority = "false"],
                     !.text = {KwAuthority}]}

Inputs == SignalInputs \cup UtteranceInputs \cup SlotInputs \cup ConflictingInputs

\* ------------------------------------------------------------- transcripts
\* voice/orchestrator.ts: keyword classes of a transcript beside those above.
\* KwConsent stands for an utterance with "yes" or "sure".
KwOptOut == "stop|remove|do not call|dont call|opt out|unsubscribe"
KwTransfer == "transfer|speak to|human"
KwConfirm == "confirm|sounds good|that works"
KwFirst == "first|option 1|one|1"
KwNeed == "critical|important|need"
KwInterested == "interested|consider"
KwThisQuarter == "this month|this quarter"
KwBudget == "budget have|budget approved"
KwPain == "problem|challenge|issue|struggling"

TranscriptKeywords ==
    {KwIdentify, KwPurpose, KwConsent, KwAuthority, KwUrgent, KwNextQuarter,
     KwOptOut, KwTransfer, KwConfirm, KwFirst, KwNeed, KwInterested,
     KwThisQuarter, KwBudget, KwPain}

\* extractIntent(text, state): the first keyword test that succeeds
extractIntent(text, state) ==
    IF KwOptOut \in text THEN "opt_out"
    ELSE IF KwConsent \in text /\ state = "ConsentGate" THEN "consent"
    ELSE IF KwTransfer \in text THEN "transfer"
    ELSE IF (KwConsent \in text \/ KwConfirm \in text) /\ state = "Confirm"
    THEN "confirm"
    ELSE IF /\ state = "ProposeTime"
            /\ (KwFirst \in text \/ KwConsent \in text \/ KwConfirm \in text)
    THEN "confirm"
    ELSE Undefined

\* extractTimeFromTranscript(text, proposedTimes); << >> stands for a list
\* that is undefined or empty
extractTimeFromTranscript(text, proposedTimes) ==
    IF proposedTimes = << >> THEN Undefined
    ELSE IF KwFirst \in text THEN proposedTimes[1]
    ELSE IF KwConsent \in text \/ KwConfirm \in text THEN proposedTimes[1]
    ELSE Undefined

\* extractQualificationSlots(text)
extractQualificationSlots(text) ==
    [NoSlots EXCEPT
        !.authority = IF KwAuthority \in text THEN "true" ELSE Undefined,
        !.need = IF KwUrgent \in text \/ KwNeed \in text THEN "high"
                 ELSE IF KwInterested \in text THEN "medium"
                 ELSE Undefined,
        !.timing = IF KwUrgent \in text \/ KwThisQuarter \in text
                   THEN "this_quarter"
                   ELSE IF KwNextQuarter \in text THEN "next_quarter"
                   ELSE Undefined,
        !.budget_indicator = IF KwBudget \in text THEN "present"
                             ELSE Undefined,
        !.pain_stated = IF KwPain \in text THEN "true" ELSE Undefined]

\* the StateMachineInput processTranscript builds from a transcript
transcriptInput(state, text, proposedTimes) ==
    LET intent == extractIntent(text, state.current)
        time == extractTimeFromTranscript(text, proposedTimes)
    IN  [intent |-> intent, text |-> text,
         slots |-> extractQualificationSlots(text),
         explicit_confirmation |->
            IF intent = "confirm" /\ time # Undefined THEN "true"
            ELSE "false",
         selected_time |-> time]

\* processTranscript: the state machine of the session after the call
processTranscriptCall(state, text, proposedTimes) ==
    nextState(state, transcriptInput(state, text, proposedTimes))

\* createCallSession: the state machine of a new session for a lead
createCallSession(callId, leadId) ==
    initialState([call_id |-> callId, lead_id |-> leadId,
                  contact_name |-> Undefined, recording_required |-> "false"])

\* the utterances of the default script of POST /dev/simulate-call
SimulatedScript ==
    << {}, {KwConsent}, {KwConsent, KwAuthority},
       {KwUrgent, KwNeed, KwThisQuarter}, {KwBudget}, {KwFirst},
       {KwConsent, KwConfirm} >>

\* what a lead says in one transcript: an utterance of the script or one with
\* a single keyword class
Utterances ==
    {SimulatedScript[i] : i \in DOMAIN SimulatedScript}
    \cup {{k} : k \in TranscriptKeywords}

\* the proposedTimes argument: absent, or the two times offered
ProposedTimes == {<< >>, <<TimeStr(1), TimeStr(2)>>}

\* ---------------------------------------------------------------- calendar
\* calendar/service.ts.  A time is its getTime() value in milliseconds.
BUFFER_MS == 10 * 60 * 1000

\* one grid step: ten minutes
GridStepMs == 10 * 60 * 1000

\* one clock step: five minutes, the shortest time to live of a hold
TickMs == 5 * 60 * 1000

ManagerIds == {"0051234567890XYZ", "0051234567890ABC"}

MeetingIds == {"meeting-1", "meeting-2"}

GridTimes == {k * GridStepMs : k \in 0..MaxGrid}

\* getAvailability's slotDuration, the length of the slots POST /book reserves
SlotDurationMs == 30 * 60 * 1000

\* lengths of the intervals callers reserve: one slot
Durations == {SlotDurationMs}

\* ttl_seconds a caller passes: the limits and the values just outside them
TtlValues == {299, 300, 1800, 1801}

RECURSIVE SelectSeqBy(_, _)
\* Array.prototype.filter keeping the entries whose tentative_id is in keep
SelectSeqBy(entries, keep) ==
    IF entries = << >> THEN << >>
    ELSE IF Head(entries).hold.tentative_id \in keep
         THEN <<Head(entries)>> \o SelectSeqBy(Tail(entries), keep)
         ELSE SelectSeqBy(Tail(entries), keep)

\* the overlap test with the buffer forgotten
buffersOverlap_noBuffer(start, end, otherStart, otherEnd) ==
    \/ (start < otherEnd /\ end > otherStart)
    \/ (otherStart < end /\ otherEnd > start)

\* the overlap test with the buffer put before the start only
buffersOverlap_startBufferOnly(start, end, otherStart, otherEnd) ==
    start - BUFFER_MS < otherEnd /\ end > otherStart

\* the overlap test of hasOverlap, the same for events and for holds
buffersOverlap(start, end, otherStart, otherEnd) ==
    LET startWithBuffer == start - BUFFER_MS
        endWithBuffer == end + BUFFER_MS
    IN  \/ (startWithBuffer < otherEnd /\ endWithBuffer > otherStart)
        \/ (otherStart < endWithBuffer /\ otherEnd > startWithBuffer)

\* hasOverlap looking at the events only
hasOverlap_eventsOnly(events, holds, startUtc, endUtc, excludeTentativeId) ==
    \E i \in 1..Len(events) :
        buffersOverlap(startUtc, endUtc, events[i].start_utc, events[i].end_utc)

\* hasOverlap over the manager's events and its (already cleaned) holds;
\* excludeTentativeId is 0 when none is passed
hasOverlap(events, holds, startUtc, endUtc, excludeTentativeId) ==
    \/ \E i \in 1..Len(events) :
          buffersOverlap(startUtc, endUtc, events[i].start_utc, events[i].end_utc)
    \/ \E i \in 1..Len(holds) :
          /\ ~(excludeTentativeId # 0 /\ holds[i].hold.tentative_id = excludeTentativeId)
          /\ buffersOverlap(startUtc, endUtc,
                            holds[i].hold.start_utc, holds[i].hold.end_utc)

generateICalUid(bookingId, startUtc) == <<"sha256", bookingId, startUtc>>

\* ------------------------------------------------------- attempt scheduler
\* attempts/strategy.ts.  A Date is the number of whole minutes since a Monday
\* 00:00 UTC; an absent Date or ISO string is NoTs, an absent number NoAttemptNo.
NoTs == 0 - 1

NoAttemptNo == 0

HourMinutes == 60

DayMinutes == 24 * HourMinutes

WeekMinutes == 7 * DayMinutes

LeadIds == {"lead-1", "lead-2"}

\* the first instant of the model: 13:00 UTC on the Monday of the second week
ClockStart == WeekMinutes + 13 * HourMinutes

Outcomes == {"answered", "no_answer", "busy", "voicemail", "failed", "opt_out"}

REGION_TIME_WINDOWS ==
    [US_EAST |-> [start |-> 13, end |-> 21],
     US_WEST |-> [start |-> 17, end |-> 1],
     EU |-> [start |-> 8, end |-> 16],
     APAC |-> [start |-> 0, end |-> 8],
     DEFAULT |-> [start |-> 13, end |-> 21]]

\* the regions callers name: the five known ones and one that is not
Regions == DOMAIN REGION_TIME_WINDOWS \cup {"LATAM"}

\* Date.getUTCHours, Date.getUTCDay (0 is Sunday)
getUTCHours(t) == (t % DayMinutes) \div HourMinutes

getUTCDay(t) == ((t \div DayMinutes) + 1) % 7

\* Date.setUTCHours(h, 0, 0, 0)
setUTCHours(t, h) == t - (t % DayMinutes) + h * HourMinutes

\* monday.setUTCDate(date - ((dayOfWeek + 6) % 7)); monday.setUTCHours(0,0,0,0)
mondayOf(t) == setUTCHours(t - ((getUTCDay(t) + 6) % 7) * DayMinutes, 0)

getAttemptsInWindow(attempts, windowStart, windowEnd) ==
    SelectSeq(attempts,
              LAMBDA attempt : /\ attempt.timestamp >= windowStart
                               /\ attempt.timestamp < windowEnd)

\* the week is the one of new Date(), the clock
getAttemptsThisWeek(attempts, clock) ==
    getAttemptsInWindow(attempts, mondayOf(clock),
                        mondayOf(clock) + WeekMinutes)

\* the first element of the stable sort by timestamp descending: the earliest
\* recorded of the attempts with the latest timestamp
getLastAttempt(attempts) ==
    attempts[CHOOSE i \in DOMAIN attempts :
                /\ \A j \in DOMAIN attempts :
                      attempts[j].timestamp <= attempts[i].timestamp
                /\ \A j \in 1..(i - 1) :
                      attempts[j].timestamp < attempts[i].timestamp]

has24HourSpacing_strict(lastAttempt, time) ==
    time - lastAttempt.timestamp > 24 * HourMinutes

has24HourSpacing(lastAttempt, time) ==
    time - lastAttempt.timestamp >= 24 * HourMinutes

getNextAttemptNo_byCount(attempts) == Len(attempts) + 1

getNextAttemptNo(attempts) ==
    IF Len(attempts) = 0 THEN 1
    ELSE getLastAttempt(attempts).attempt_no + 1

isVoicemailAllowed_fromSecond(attemptNo) == attemptNo >= 2

isVoicemailAllowed(attemptNo) == attemptNo = 2

getTimeWindow(region) ==
    IF region \in DOMAIN REGION_TIME_WINDOWS THEN REGION_TIME_WINDOWS[region]
    ELSE REGION_TIME_WINDOWS.DEFAULT

getNextTimeInWindow(time, window) ==
    LET currentHour == getUTCHours(time)
    IN  IF window.end < window.start
        THEN IF currentHour >= window.start \/ currentHour < window.end
             THEN time + 1
             ELSE setUTCHours(time, window.start)
        ELSE IF currentHour < window.start
             THEN setUTCHours(time, window.start)
             ELSE IF currentHour < window.end
                  THEN time + 1
                  ELSE setUTCHours(time + DayMinutes, window.start)

getBusyRetryTime(lastAttempt, time) ==
    IF lastAttempt.outcome # "busy" THEN NoTs
    ELSE IF time - lastAttempt.timestamp < 15
         THEN lastAttempt.timestamp + 15
         ELSE NoTs

\* canCallNow of scheduleAttempt
canCallNow_endIncluded(window, currentHour) ==
    IF window.end < window.start
    THEN currentHour >= window.start \/ currentHour <= window.end
    ELSE currentHour >= window.start /\ currentHour <= window.end

canCallNow(window, currentHour) ==
    IF window.end < window.start
    THEN currentHour >= window.start \/ currentHour < window.end
    ELSE currentHour >= window.start /\ currentHour < window.end

ScheduleResult(eligible, nextAttemptTs, blockReason, attemptNo, retryAfterTs) ==
    [eligible |-> eligible, next_attempt_ts |-> nextAttemptTs,
     block_reason |-> blockReason, attempt_no |-> attemptNo,
     retry_after_ts |-> retryAfterTs]

\* scheduleAttempt looking at the busy retry before the weekly limit and at
\* the time window before the spacing
scheduleAttempt_otherOrder(store, clock, leadId, region, currentTime) ==
    LET time == IF currentTime = NoTs THEN clock ELSE currentTime
        attempts == store[leadId]
        attemptsThisWeek == getAttemptsThisWeek(attempts, clock)
        lastAttempt == getLastAttempt(attempts)
        busyRetry == getBusyRetryTime(lastAttempt, time)
        window == getTimeWindow(region)
    IN  IF Len(attempts) > 0 /\ busyRetry # NoTs /\ busyRetry > time
        THEN ScheduleResult(TRUE, busyRetry, Undefined,
                            lastAttempt.attempt_no, busyRetry)
        ELSE IF Len(attemptsThisWeek) >= 3
        THEN ScheduleResult(FALSE,
                getNextTimeInWindow(mondayOf(time) + WeekMinutes, window),
                "WEEKLY_LIMIT_EXCEEDED", NoAttemptNo, NoTs)
        ELSE IF ~canCallNow(window, getUTCHours(time))
        THEN ScheduleResult(FALSE, getNextTimeInWindow(time, window),
                            "OUTSIDE_TIME_WINDOW", getNextAttemptNo(attempts),
                            NoTs)
        ELSE IF /\ Len(attempts) > 0
                /\ ~has24HourSpacing(lastAttempt, time)
        THEN ScheduleResult(FALSE,
                getNextTimeInWindow(lastAttempt.timestamp + 24 * HourMinutes,
                                    window),
                "INSUFFICIENT_SPACING", getNextAttemptNo(attempts), NoTs)
        ELSE ScheduleResult(TRUE, time, Undefined,
                            getNextAttemptNo(attempts), NoTs)

\* scheduleAttempt(leadId, region, currentTime) on the store at a clock;
\* currentTime is NoTs when the caller leaves it out
scheduleAttempt(store, clock, leadId, region, currentTime) ==
    LET time == IF currentTime = NoTs THEN clock ELSE currentTime
        attempts == store[leadId]
        attemptsThisWeek == getAttemptsThisWeek(attempts, clock)
        lastAttempt == getLastAttempt(attempts)
        busyRetry == getBusyRetryTime(lastAttempt, time)
        window == getTimeWindow(region)
    IN  IF Len(attemptsThisWeek) >= 3
        THEN ScheduleResult(FALSE,
                getNextTimeInWindow(mondayOf(time) + WeekMinutes, window),
                "WEEKLY_LIMIT_EXCEEDED", NoAttemptNo, NoTs)
        ELSE IF Len(attempts) > 0 /\ busyRetry # NoTs /\ busyRetry > time
        THEN ScheduleResult(TRUE, busyRetry, Undefined,
                            lastAttempt.attempt_no, busyRetry)
        ELSE IF /\ Len(attempts) > 0
                /\ ~has24HourSpacing(lastAttempt, time)
                /\ ~(lastAttempt.outcome = "busy" /\ busyRetry # NoTs)
        THEN ScheduleResult(FALSE,
                getNextTimeInWindow(lastAttempt.timestamp + 24 * HourMinutes,
                                    window),
                "INSUFFICIENT_SPACING", getNextAttemptNo(attempts), NoTs)
        ELSE IF canCallNow(window, getUTCHours(time))
        THEN ScheduleResult(TRUE, time, Undefined,
                            getNextAttemptNo(attempts), NoTs)
        ELSE ScheduleResult(FALSE, getNextTimeInWindow(time, window),
                            "OUTSIDE_TIME_WINDOW", getNextAttemptNo(attempts),
                            NoTs)

isVoicemailAllowedForLead(store, leadId) ==
    isVoicemailAllowed(getNextAttemptNo(store[leadId]))

\* --------------------------------------------------------------- variables
VARIABLES
    state_machine,  \* session.state_machine, the StateMachineState of the call
    currentState,   \* processTranscript's currentState: the state the last
                    \* input was applied to ("none" before the first)
    selectedTime,   \* the selected_time of the input that moved the machine
                    \* from ProposeTime to Confirm (Undefined before)
    now,            \* Date.now()
    eventStore,     \* meeting_id -> CalendarEvent
    holdStore,      \* tentative_id -> HoldCacheEntry
    managerEvents,  \* manager_id -> CalendarEvent[]
    managerHolds,   \* manager_id -> HoldCacheEntry[]
    uuidCount,      \* number of tentative ids uuidv4 has produced for stored holds
    eventCount,     \* number of events stored so far
    attemptStore,   \* lead_id -> AttemptRecord[]
    wallClock,      \* new Date() of the attempt scheduler, in minutes
    bookingStore,   \* the BookingRecords of booking/store.ts, in creation order
    taskStore,      \* the SalesforceTasks of crm/salesforceMock.ts
    outbox,         \* the OutboxEntries of messaging/outbox.ts
    sentEvents      \* the SentEventRecords of messaging/outboxWorker.ts

sessionVars == <<state_machine, currentState, selectedTime>>

calendarVars ==
    <<now, eventStore, holdStore, managerEvents, managerHolds, uuidCount,
      eventCount>>

attemptVars == <<attemptStore, wallClock>>

bookingVars == <<bookingStore, taskStore, outbox, sentEvents>>

vars == <<state_machine, currentState, selectedTime, now, eventStore, holdStore,
          managerEvents, managerHolds, uuidCount, eventCount, attemptStore,
          wallClock, bookingStore, taskStore, outbox, sentEvents>>

\* the module-level stores of calendar/service.ts as they are created
InitCalendar ==
    /\ now = 0
    /\ eventStore = << >>
    /\ holdStore = << >>
    /\ managerEvents = [m \in ManagerIds |-> << >>]
    /\ managerHolds = [m \in ManagerIds |-> << >>]
    /\ uuidCount = 0
    /\ eventCount = 0

\* the attempt store of attempts/strategy.ts as it is created, the clock at
\* the first instant of the model
InitAttempts ==
    /\ attemptStore = [l \in LeadIds |-> << >>]
    /\ wallClock = ClockStart

\* the booking store, the CRM task store, the outbox and the sent events log
\* as they are created
InitBooking ==
    /\ bookingStore = << >>
    /\ taskStore = << >>
    /\ outbox = << >>
    /\ sentEvents = << >>

\* createCallSession: a fresh session holds initialState(context)
InitSession ==
    /\ state_machine \in {initialState(c) : c \in ConversationContext}
    /\ currentState = "none"
    /\ selectedTime = Undefined

Init == InitSession /\ InitCalendar /\ InitAttempts /\ InitBooking

\* the state the opener is documented to leave the machine in: ConsentGate
\* with the identification and purpose lines delivered
afterOpener(context) ==
    [initialState(context) EXCEPT
        !.current = "ConsentGate",
        !.mandatory_lines = [NoLines EXCEPT !.identification = "true",
                                            !.purpose = "true"],
        !.history = <<"IdentifyContact", "ConsentGate">>]

\* a call picked up either fresh or right after the opener
InitAfterOpener ==
    /\ state_machine \in {initialState(c) : c \in ConversationContext}
                         \cup {afterOpener(c) : c \in ConversationContext}
    /\ currentState = "none"
    /\ selectedTime = Undefined
    /\ InitCalendar
    /\ InitAttempts
    /\ InitBooking

\* one call of nextState on the session's state machine, as processTranscript
\* and the test suite make it: session.state_machine = nextState(
\* session.state_machine, input).  The input ranges over StateMachineInput
\* values, not only over those extractIntent builds from a transcript.
applyNextState ==
    /\ \E input \in Inputs :
        /\ state_machine' = nextState(state_machine, input)
        /\ currentState' = state_machine.current
        /\ selectedTime' =
              IF /\ state_machine.current = "ProposeTime"
                 /\ nextState(state_machine, input).current = "Confirm"
              THEN input.selected_time ELSE selectedTime
    /\ UNCHANGED calendarVars
    /\ UNCHANGED attemptVars
    /\ UNCHANGED bookingVars

\* processTranscript on the session of a call: it throws for a session that
\* an opt-out made inactive
processTranscript ==
    /\ state_machine.current # "OptOut"
    /\ \E text \in Utterances, proposedTimes \in ProposedTimes :
        /\ state_machine' =
              processTranscriptCall(state_machine, text, proposedTimes)
        /\ currentState' = state_machine.current
        /\ selectedTime' =
              IF /\ state_machine.current = "ProposeTime"
                 /\ state_machine'.current = "Confirm"
              THEN extractTimeFromTranscript(text, proposedTimes)
              ELSE selectedTime
    /\ UNCHANGED calendarVars
    /\ UNCHANGED attemptVars
    /\ UNCHANGED bookingVars

\* ------------------------------------------------------- calendar operations
\* the ids kept with a hold counted as live at the instant it expires
liveIds_untilAfterExpiry(store, time) ==
    {id \in DOMAIN store : store[id].expires_at >= time}

\* the ids cleanupExpiredHolds keeps: those with expires_at > now
liveIds(store, time) == {id \in DOMAIN store : store[id].expires_at > time}

\* the four stores and the two id counters as one value
calendar ==
    [eventStore |-> eventStore, holdStore |-> holdStore,
     managerEvents |-> managerEvents, managerHolds |-> managerHolds,
     uuidCount |-> uuidCount, eventCount |-> eventCount]

\* the stores as the module creates them
EmptyCalendar ==
    [eventStore |-> << >>, holdStore |-> << >>,
     managerEvents |-> [m \in ManagerIds |-> << >>],
     managerHolds |-> [m \in ManagerIds |-> << >>],
     uuidCount |-> 0, eventCount |-> 0]

\* cleanupExpiredHolds: the stores once every entry with expires_at <= now is
\* deleted
cleanupExpiredHolds(cal, time) ==
    [cal EXCEPT
        !.holdStore = [id \in liveIds(cal.holdStore, time) |-> cal.holdStore[id]],
        !.managerHolds =
            [m \in ManagerIds |->
                SelectSeqBy(cal.managerHolds[m], liveIds(cal.holdStore, time))]]

cleanedHoldStore == cleanupExpiredHolds(calendar, now).holdStore

cleanedManagerHolds == cleanupExpiredHolds(calendar, now).managerHolds

\* the error strings of the failure results
ErrTtl == "ttl_seconds must be between 300 and 1800"

ErrOverlap ==
    "Time slot overlaps with existing event or hold (including 10-minute buffers)"

ErrValidation == "Validation failed"

\* { success: false, error }
Failure(op, error) ==
    [op |-> op, success |-> FALSE, error |-> error,
     tentative_id |-> 0, iCal_uid |-> Undefined]

\* the TTL test with the upper limit excluded
ttlValid_upperExcluded(ttl_seconds) == ~(ttl_seconds < 300 \/ ttl_seconds >= 1800)

\* the negation of placeHold's TTL rejection test
ttlValid(ttl_seconds) == ~(ttl_seconds < 300 \/ ttl_seconds > 1800)

\* placeHold storing the hold without looking at the manager's reservations
placeHoldCall_noRecheck(cal, time, params, schemaValid) ==
    IF ~ttlValid(params.ttl_seconds)
    THEN [cal |-> cal, result |-> Failure("placeHold", ErrTtl)]
    ELSE
    LET cleaned == cleanupExpiredHolds(cal, time) IN
    IF ~schemaValid
    THEN [cal |-> cleaned, result |-> Failure("placeHold", ErrValidation)]
    ELSE
    LET tentativeId == cal.uuidCount + 1
        entry == [hold |-> [tentative_id |-> tentativeId,
                            manager_id |-> params.manager_id,
                            start_utc |-> params.start_utc,
                            end_utc |-> params.end_utc,
                            ttl_seconds |-> params.ttl_seconds],
                  expires_at |-> time + params.ttl_seconds * 1000]
    IN  [cal |->
            [cleaned EXCEPT
                !.uuidCount = tentativeId,
                !.holdStore =
                    [id \in DOMAIN cleaned.holdStore \cup {tentativeId} |->
                        IF id = tentativeId THEN entry ELSE cleaned.holdStore[id]],
                !.managerHolds[params.manager_id] = Append(@, entry)],
         result |->
            [op |-> "placeHold", success |-> TRUE, error |-> Undefined,
             tentative_id |-> tentativeId, iCal_uid |-> Undefined]]

\* placeHold on the stores cal at time `time`: the stores it leaves and the
\* result it returns.  schemaValid tells whether CalendarHoldSchema accepts
\* the hold.
placeHoldCall(cal, time, params, schemaValid) ==
    IF ~ttlValid(params.ttl_seconds)
    THEN [cal |-> cal, result |-> Failure("placeHold", ErrTtl)]
    ELSE
    LET cleaned == cleanupExpiredHolds(cal, time) IN
    IF hasOverlap(cleaned.managerEvents[params.manager_id],
                  cleaned.managerHolds[params.manager_id],
                  params.start_utc, params.end_utc, 0)
    THEN [cal |-> cleaned, result |-> Failure("placeHold", ErrOverlap)]
    ELSE IF ~schemaValid
    THEN [cal |-> cleaned, result |-> Failure("placeHold", ErrValidation)]
    ELSE
    LET tentativeId == cal.uuidCount + 1
        entry == [hold |-> [tentative_id |-> tentativeId,
                            manager_id |-> params.manager_id,
                            start_utc |-> params.start_utc,
                            end_utc |-> params.end_utc,
                            ttl_seconds |-> params.ttl_seconds],
                  expires_at |-> time + params.ttl_seconds * 1000]
    IN  [cal |->
            [cleaned EXCEPT
                !.uuidCount = tentativeId,
                !.holdStore =
                    [id \in DOMAIN cleaned.holdStore \cup {tentativeId} |->
                        IF id = tentativeId THEN entry ELSE cleaned.holdStore[id]],
                !.managerHolds[params.manager_id] = Append(@, entry)],
         result |->
            [op |-> "placeHold", success |-> TRUE, error |-> Undefined,
             tentative_id |-> tentativeId, iCal_uid |-> Undefined]]

\* no hold is ever taken for the one being promoted
matchingHold_none(holds, eventStart) == 0

\* holds.find: the id of the first hold starting within a second of the
\* event, 0 when there is none
matchingHold(holds, eventStart) ==
    LET hits == {i \in 1..Len(holds) :
                    LET d == holds[i].hold.start_utc - eventStart
                    IN  (IF d < 0 THEN -d ELSE d) < 1000}
    IN  IF hits = {} THEN 0
        ELSE holds[CHOOSE i \in hits : \A j \in hits : i <= j].hold.tentative_id

\* the UID derived from the manager as well
newICalUid_perManager(event) ==
    generateICalUid(event.meeting_id \o event.manager_id, event.start_utc)

\* the UID createEvent gives an event that carries none
newICalUid(event) == generateICalUid(event.meeting_id, event.start_utc)

\* createEvent on the stores cal at time `time`: the stores it leaves and the
\* result it returns.  gateValid tells whether preWriteGate and
\* CalendarEventSchema accept the event.
createEventCall(cal, time, event, gateValid) ==
    LET iCal_uid == IF Truthy(event.iCal_uid) THEN event.iCal_uid
                    ELSE newICalUid(event)
    IN
    IF ~gateValid
    THEN [cal |-> cal, result |-> Failure("createEvent", ErrValidation)]
    ELSE
    LET cleaned == cleanupExpiredHolds(cal, time)
        holds == cleaned.managerHolds[event.manager_id]
        matching == matchingHold(holds, event.start_utc)
        stored == [meeting_id |-> event.meeting_id,
                   manager_id |-> event.manager_id,
                   start_utc |-> event.start_utc,
                   end_utc |-> event.end_utc,
                   iCal_uid |-> iCal_uid]
    IN
    IF hasOverlap(cleaned.managerEvents[event.manager_id], holds,
                  event.start_utc, event.end_utc, matching)
    THEN [cal |-> cleaned, result |-> Failure("createEvent", ErrOverlap)]
    ELSE [cal |->
            [cleaned EXCEPT
                !.eventStore =
                    [id \in DOMAIN cal.eventStore \cup {event.meeting_id} |->
                        IF id = event.meeting_id THEN stored
                        ELSE cal.eventStore[id]],
                !.managerEvents[event.manager_id] = Append(@, stored),
                !.eventCount = cal.eventCount + 1,
                !.holdStore =
                    [id \in DOMAIN cleaned.holdStore \ {matching} |->
                        cleaned.holdStore[id]],
                !.managerHolds[event.manager_id] =
                    SelectSeqBy(holds,
                        {h \in DOMAIN cleaned.holdStore : h # matching})],
          result |->
            [op |-> "createEvent", success |-> TRUE, error |-> Undefined,
             tentative_id |-> 0, iCal_uid |-> iCal_uid]]

\* the stores take the value a call leaves
Becomes(cal) ==
    /\ eventStore' = cal.eventStore
    /\ holdStore' = cal.holdStore
    /\ managerEvents' = cal.managerEvents
    /\ managerHolds' = cal.managerHolds
    /\ uuidCount' = cal.uuidCount
    /\ eventCount' = cal.eventCount

\* the passage of time between two calls
Tick ==
    /\ now < MaxTicks * TickMs
    /\ now' = now + TickMs
    /\ UNCHANGED <<eventStore, holdStore, managerEvents, managerHolds,
                   uuidCount, eventCount>>
    /\ UNCHANGED sessionVars
    /\ UNCHANGED attemptVars
    /\ UNCHANGED bookingVars

\* the number of slots with the last, partly covered slot left out
slotCount_floor(from, to) == (to - from) \div SlotDurationMs

\* the number of turns of the loop while (current < to), current advancing by
\* slotDuration from `from`
slotCount(from, to) ==
    IF to <= from THEN 0
    ELSE (to - from + SlotDurationMs - 1) \div SlotDurationMs

\* getAvailability(managerId, window) on the stores cal at a time: the stores
\* it leaves and the slots it returns
getAvailabilityCall(cal, time, managerId, window) ==
    LET cleaned == cleanupExpiredHolds(cal, time)
    IN  [cal |-> cleaned,
         result |->
            [i \in 1..slotCount(window.from, window.to) |->
                LET slotStart == window.from + (i - 1) * SlotDurationMs
                    slotEnd == slotStart + SlotDurationMs
                IN  [start_utc |-> slotStart, end_utc |-> slotEnd,
                     available |->
                        ~hasOverlap(cleaned.managerEvents[managerId],
                                    cleaned.managerHolds[managerId],
                                    slotStart, slotEnd, 0)]]]

\* lengths of the windows asked for: empty, shorter than one slot, and two
\* slots and a part of a third
WindowLengths == {0, GridStepMs, 2 * SlotDurationMs + GridStepMs}

Windows == {[from |-> f, to |-> f + l] : f \in GridTimes, l \in WindowLengths}

getAvailability ==
    /\ \E managerId \in ManagerIds, window \in Windows :
        LET r == getAvailabilityCall(calendar, now, managerId, window)
        IN  /\ holdStore' = r.cal.holdStore
            /\ managerHolds' = r.cal.managerHolds
    /\ UNCHANGED <<now, eventStore, managerEvents, uuidCount, eventCount>>
    /\ UNCHANGED sessionVars
    /\ UNCHANGED attemptVars
    /\ UNCHANGED bookingVars

\* the holds callers ask for
HoldParams ==
    {[manager_id |-> m, start_utc |-> s, end_utc |-> s + d, ttl_seconds |-> t] :
        m \in ManagerIds, s \in GridTimes, d \in Durations, t \in TtlValues}

\* the holds the calls of the model ask for: those with the shortest TTL,
\* which expire within the clock steps, and those with a TTL out of range
PlacedHoldParams ==
    {p \in HoldParams : p.ttl_seconds # 1800}

placeHold ==
    /\ uuidCount + eventCount < MaxReservations
    /\ \/ \E params \in PlacedHoldParams :
            LET r == placeHoldCall(calendar, now, params, TRUE)
            IN  Becomes(r.cal)
       \* a hold CalendarHoldSchema rejects: the stores were cleaned on the
       \* way, nothing is stored
       \/ \E params \in {p \in HoldParams : p.ttl_seconds = 300} :
            LET r == placeHoldCall(calendar, now, params, FALSE)
            IN  Becomes(r.cal)
    /\ UNCHANGED now
    /\ UNCHANGED sessionVars
    /\ UNCHANGED attemptVars
    /\ UNCHANGED bookingVars

\* the events callers submit, without an iCal_uid of their own
EventParams ==
    {[meeting_id |-> b, manager_id |-> m, start_utc |-> s, end_utc |-> s + d,
      iCal_uid |-> Undefined] :
        b \in MeetingIds, m \in ManagerIds, s \in GridTimes, d \in Durations}

createEvent ==
    /\ uuidCount + eventCount < MaxReservations
    /\ \/ \E event \in EventParams :
            LET r == createEventCall(calendar, now, event, TRUE)
            IN  Becomes(r.cal)
       \* an event preWriteGate rejects: returned before anything is touched
       \/ LET r == createEventCall(calendar, now,
                                   CHOOSE event \in EventParams : TRUE, FALSE)
          IN  Becomes(r.cal)
    /\ UNCHANGED now
    /\ UNCHANGED sessionVars
    /\ UNCHANGED attemptVars
    /\ UNCHANGED bookingVars

\* ------------------------------------------------ attempt scheduler operations
\* the clock moves on by five minutes or by a week
ClockSteps == {5, WeekMinutes}

\* the number of steps the clock has taken since ClockStart
clockStepsTaken ==
    LET passed == wallClock - ClockStart
    IN  passed \div WeekMinutes + (passed % WeekMinutes) \div 5

advanceClock ==
    /\ clockStepsTaken < MaxClockSteps
    /\ \E step \in ClockSteps : wallClock' = wallClock + step
    /\ UNCHANGED attemptStore
    /\ UNCHANGED sessionVars
    /\ UNCHANGED calendarVars
    /\ UNCHANGED bookingVars

\* the outcomes the recorded attempts end with
RecordedOutcomes == {"busy", "no_answer"}

\* the number of attempts the store holds, over all leads
recordedAttempts(store) ==
    LET total[S \in SUBSET LeadIds] ==
            IF S = {} THEN 0
            ELSE LET l == CHOOSE l \in S : TRUE
                 IN  Len(store[l]) + total[S \ {l}]
    IN  total[LeadIds]

\* a caller asks scheduleAttempt without a currentTime, is told the lead is
\* eligible, makes the attempt and records it with recordAttempt under the
\* attempt_no returned, at the time it asked
recordAttempt ==
    /\ recordedAttempts(attemptStore) < MaxAttempts
    /\ \E leadId \in LeadIds, region \in Regions,
          outcome \in RecordedOutcomes :
            LET r == scheduleAttempt(attemptStore, wallClock, leadId, region,
                                     NoTs)
            IN  /\ r.eligible
                /\ attemptStore' =
                      [attemptStore EXCEPT ![leadId] =
                          Append(@, [lead_id |-> leadId,
                                     attempt_no |-> r.attempt_no,
                                     timestamp |-> wallClock,
                                     outcome |-> outcome])]
    /\ UNCHANGED wallClock
    /\ UNCHANGED sessionVars
    /\ UNCHANGED calendarVars
    /\ UNCHANGED bookingVars

\* ------------------------------------------------------------- POST /book
\* the stores POST /book writes to, as one value
bookState ==
    [cal |-> calendar, bookingStore |-> bookingStore, taskStore |-> taskStore,
     outbox |-> outbox]

\* a || b of JavaScript
Or(a, b) == IF Truthy(a) THEN a ELSE b

\* validatePreBooking(context): the reasonCode, or "pass"
validatePreBooking(context) ==
    IF context.explicit_confirmation # "true"
    THEN "EXPLICIT_CONFIRMATION_MISSING"
    ELSE IF ~Truthy(context.confirmed_date) \/ context.confirmed_time = NoTs
    THEN "CONFIRMED_DATETIME_MISSING"
    ELSE IF context.qualification_flags = {}
    THEN "QUALIFICATION_FLAGS_MISSING"
    ELSE "pass"

\* the policyContext POST /book builds from the request body
policyContext(body) ==
    [explicit_confirmation |->
        Or(Or(body.explicit_confirmation, body.confirm), "false"),
     confirmed_date |-> body.confirmed_date,
     confirmed_time |-> body.confirmed_time,
     qualification_flags |-> body.qualification_flags]

\* slots.find((slot) => slot.available): the index of the first available
\* slot, 0 when there is none
firstAvailable(slots) ==
    IF \E k \in DOMAIN slots : slots[k].available
    THEN CHOOSE k \in DOMAIN slots :
            /\ slots[k].available
            /\ \A j \in 1..(k - 1) : ~slots[j].available
    ELSE 0

\* enqueueConfirmation pushing the message twice
enqueueConfirmation_twice(box, message) ==
    LET entry == [message_id |-> message.message_id, message |-> message,
                  status |-> "queued"]
    IN  Append(Append(box, entry), entry)

\* enqueueConfirmation: the outbox with one queued entry for the message
\* pushed at its end; the message is a ConfirmationMessage the schema accepts
enqueueConfirmation(box, message) ==
    Append(box, [message_id |-> message.message_id, message |-> message,
                 status |-> "queued"])

\* the index of the entry outbox.find returns for a message id: the first
\* with that id, 0 when there is none
findEntry(box, messageId) ==
    IF \E k \in DOMAIN box : box[k].message_id = messageId
    THEN CHOOSE k \in DOMAIN box :
            /\ box[k].message_id = messageId
            /\ \A j \in DOMAIN box : box[j].message_id = messageId => k <= j
    ELSE 0

\* getQueuedMessages: the queued entries in outbox order
getQueuedMessages(box) ==
    SelectSeq(box, LAMBDA entry : entry.status = "queued")

\* markMessageSent leaving message.delivery_status as it was
markMessageSent_statusOnly(box, messageId) ==
    LET k == findEntry(box, messageId)
    IN  IF k # 0 /\ box[k].status = "queued"
        THEN [box |-> [box EXCEPT ![k].status = "sent"], marked |-> TRUE]
        ELSE [box |-> box, marked |-> FALSE]

\* markMessageSent: the outbox after the call and the boolean it returns
markMessageSent(box, messageId) ==
    LET k == findEntry(box, messageId)
    IN  IF k # 0 /\ box[k].status = "queued"
        THEN [box |-> [box EXCEPT ![k].status = "sent",
                                  ![k].message.delivery_status = "sent"],
              marked |-> TRUE]
        ELSE [box |-> box, marked |-> FALSE]

\* markMessageFailed: the outbox after the call and the boolean it returns
markMessageFailed(box, messageId) ==
    LET k == findEntry(box, messageId)
    IN  IF k # 0 /\ box[k].status = "queued"
        THEN [box |-> [box EXCEPT ![k].status = "failed",
                                  ![k].message.delivery_status = "failed"],
              marked |-> TRUE]
        ELSE [box |-> box, marked |-> FALSE]

\* processMessage on one entry of the queued list: st holds the outbox and
\* the sent events log, renders tells whether renderTemplate returned; the
\* result adds the record returned ("none" for null)
processMessage(st, entry, renders) ==
    IF renders
    THEN LET sent == markMessageSent(st.outbox, entry.message_id)
         IN  IF ~sent.marked
             THEN [outbox |-> st.outbox, sentEvents |-> st.sentEvents,
                   result |-> "none"]
             ELSE [outbox |-> sent.box,
                   sentEvents |->
                       Append(st.sentEvents,
                              [message_id |-> entry.message_id,
                               success |-> TRUE]),
                   result |-> "success"]
    ELSE [outbox |-> markMessageFailed(st.outbox, entry.message_id).box,
          sentEvents |->
              Append(st.sentEvents,
                     [message_id |-> entry.message_id, success |-> FALSE]),
          result |-> "failure"]

RECURSIVE processQueued(_, _, _)
\* the loop of drainOutbox over the queued list, with the counters it keeps
processQueued(st, queued, throwing) ==
    IF queued = << >>
    THEN st
    ELSE LET r == processMessage(st, Head(queued),
                                 Head(queued).message_id \notin throwing)
         IN  processQueued(
                 [outbox |-> r.outbox, sentEvents |-> r.sentEvents,
                  processed |-> st.processed,
                  succeeded |-> st.succeeded
                                + (IF r.result = "success" THEN 1 ELSE 0),
                  failed |-> st.failed
                             + (IF r.result = "failure" THEN 1 ELSE 0)],
                 Tail(queued), throwing)

\* drainOutbox: the stores it leaves and the counts it returns; throwing is
\* the set of message ids whose template throws
drainOutboxCall(st, throwing) ==
    LET queued == getQueuedMessages(st.outbox)
    IN  processQueued([outbox |-> st.outbox, sentEvents |-> st.sentEvents,
                       processed |-> Len(queued), succeeded |-> 0,
                       failed |-> 0],
                      queued, throwing)

\* the response of POST /book and the stores it leaves; the
\* confirmation_message_id is 0 where the response has none
BookResponse(st, status, error) ==
    [cal |-> st.cal, bookingStore |-> st.bookingStore,
     taskStore |-> st.taskStore, outbox |-> st.outbox,
     status |-> status, error |-> error, confirmation_message_id |-> 0]

\* POST /book with a request body on the stores st at a time
bookCall(st, time, body) ==
    IF \/ ~Truthy(body.lead_id)
       \/ ~Truthy(body.manager_id)
    THEN BookResponse(st, 400, "required")
    ELSE
    LET policyResult == validatePreBooking(policyContext(body)) IN
    IF policyResult # "pass"
    THEN BookResponse(st, 400, policyResult)
    ELSE
    LET windows == body.preferred_windows
        cleaned == IF Len(windows) = 0 THEN st.cal
                   ELSE cleanupExpiredHolds(st.cal, time)
        slotsOf(i) ==
            getAvailabilityCall(cleaned, time, body.manager_id,
                                windows[i]).result
        offering == {i \in DOMAIN windows : firstAvailable(slotsOf(i)) # 0}
    IN
    IF offering = {}
    THEN BookResponse([st EXCEPT !.cal = cleaned], 400, "No available slots")
    ELSE
    LET w == CHOOSE i \in offering : \A j \in offering : i <= j
        bestSlot == slotsOf(w)[firstAvailable(slotsOf(w))]
        holdResult ==
            placeHoldCall(cleaned, time,
                          [manager_id |-> body.manager_id,
                           start_utc |-> bestSlot.start_utc,
                           end_utc |-> bestSlot.end_utc,
                           ttl_seconds |-> 1800], TRUE)
    IN
    IF ~holdResult.result.success
    THEN BookResponse([st EXCEPT !.cal = holdResult.cal], 400,
                      holdResult.result.error)
    ELSE
    LET bookingId == Len(st.bookingStore) + 1
        meetingId == CHOOSE id \in MeetingIds :
                        id \notin DOMAIN st.cal.eventStore
        booking ==
            [booking_id |-> bookingId, lead_id |-> body.lead_id,
             manager_id |-> body.manager_id,
             outcome |-> IF Truthy(body.confirm) THEN "booked"
                         ELSE "reschedule_requested",
             tentative_id |-> holdResult.result.tentative_id,
             meeting_id |-> Undefined, task_id |-> 0,
             confirmation_message_ids |-> << >>]
        held == [st EXCEPT !.cal = holdResult.cal,
                           !.bookingStore = Append(@, booking)]
    IN
    IF ~(/\ Truthy(body.confirm)
         /\ Truthy(body.explicit_confirmation)
         /\ Truthy(body.confirmed_date)
         /\ body.confirmed_time # NoTs)
    THEN BookResponse(held, 200, "hold_placed")
    ELSE
    LET eventResult ==
            createEventCall(holdResult.cal, time,
                            [meeting_id |-> meetingId,
                             manager_id |-> body.manager_id,
                             start_utc |-> body.confirmed_time,
                             end_utc |-> body.confirmed_time + 30 * 60 * 1000,
                             iCal_uid |-> ""], TRUE)
    IN
    IF ~eventResult.result.success
    THEN BookResponse([held EXCEPT !.cal = eventResult.cal], 400,
                      eventResult.result.error)
    ELSE
    LET messageId == Len(st.outbox) + 1
    IN  [BookResponse(
            [cal |-> eventResult.cal,
             bookingStore |->
                Append(st.bookingStore,
                       [booking EXCEPT
                            !.meeting_id = meetingId,
                            !.task_id = bookingId,
                            !.confirmation_message_ids = <<messageId>>]),
             taskStore |->
                Append(st.taskStore,
                       [booking_id |-> bookingId, lead_id |-> body.lead_id,
                        manager_id |-> body.manager_id, outcome |-> "booked",
                        meeting_id |-> meetingId]),
             outbox |->
                enqueueConfirmation(st.outbox,
                    [message_id |-> messageId, booking_id |-> bookingId,
                     meeting_id |-> meetingId, delivery_status |-> "queued"])],
            200, "booked")
         EXCEPT !.confirmation_message_id = messageId]

\* the preferred_windows of the requests: none, or one window that is empty
\* or holds two slots and a part of a third
PreferredWindows ==
    {<< >>} \cup {<<w>> : w \in {v \in Windows : v.to - v.from # GridStepMs}}

\* the confirmed_time of the requests: left out, or one of the first two
\* instants of the grid
ConfirmedTimes == {NoTs} \cup {t \in GridTimes : t <= GridStepMs}

\* the request bodies of POST /book; a field left out is Undefined, a
\* confirmed_time left out NoTs, qualification_flags left out {}
BookRequests ==
    {[lead_id |-> l, manager_id |-> m, preferred_windows |-> w,
      confirm |-> c, explicit_confirmation |-> e, confirmed_date |-> d,
      confirmed_time |-> t, qualification_flags |-> q] :
        l \in LeadIds, m \in ManagerIds, w \in PreferredWindows,
        c \in {"true", "false"}, e \in OptBool,
        d \in {Undefined, "2024-03-15"}, t \in ConfirmedTimes,
        q \in {{}, {"budget"}}}

book ==
    /\ Len(bookingStore) < MaxBookings
    /\ MeetingIds \ DOMAIN eventStore # {}
    /\ \/ \E body \in BookRequests :
            LET r == bookCall(bookState, now, body)
            IN  /\ Becomes(r.cal)
                /\ bookingStore' = r.bookingStore
                /\ taskStore' = r.taskStore
                /\ outbox' = r.outbox
       \* a request without lead_id: returned before anything is touched
       \/ LET body == [CHOOSE b \in BookRequests : TRUE
                          EXCEPT !.lead_id = Undefined]
              r == bookCall(bookState, now, body)
          IN  /\ Becomes(r.cal)
              /\ bookingStore' = r.bookingStore
              /\ taskStore' = r.taskStore
              /\ outbox' = r.outbox
    /\ UNCHANGED sentEvents
    /\ UNCHANGED now
    /\ UNCHANGED sessionVars
    /\ UNCHANGED attemptVars

\* the booking branch of POST /voice/transcript, taken when processTranscript
\* returns a BookingIntent: the stores it leaves, whether the hold was placed
\* and whether the event was created.  confirmedTime is the instant of the
\* intent's confirmed_time, gateValid tells whether the pre-write gate and the
\* schema accept the event.
transcriptBookingCall(st, time, leadId, managerId, confirmedTime, gateValid) ==
    LET holdResult ==
            placeHoldCall(st.cal, time,
                          [manager_id |-> managerId,
                           start_utc |-> confirmedTime,
                           end_utc |-> confirmedTime + 30 * 60 * 1000,
                           ttl_seconds |-> 1800], TRUE)
    IN
    IF ~holdResult.result.success
    THEN [cal |-> holdResult.cal, bookingStore |-> st.bookingStore,
          taskStore |-> st.taskStore, outbox |-> st.outbox,
          hold_success |-> FALSE, event_success |-> FALSE]
    ELSE
    LET bookingId == Len(st.bookingStore) + 1
        meetingId == CHOOSE id \in MeetingIds :
                        id \notin DOMAIN st.cal.eventStore
        messageId == Len(st.outbox) + 1
        eventResult ==
            createEventCall(holdResult.cal, time,
                            [meeting_id |-> meetingId,
                             manager_id |-> managerId,
                             start_utc |-> confirmedTime,
                             end_utc |-> confirmedTime + 30 * 60 * 1000,
                             iCal_uid |-> ""], gateValid)
    IN  [cal |-> eventResult.cal,
         bookingStore |->
            Append(st.bookingStore,
                   [booking_id |-> bookingId, lead_id |-> leadId,
                    manager_id |-> managerId, outcome |-> "booked",
                    tentative_id |-> 0, meeting_id |-> Undefined,
                    task_id |-> 0, confirmation_message_ids |-> << >>]),
         taskStore |->
            Append(st.taskStore,
                   [booking_id |-> bookingId, lead_id |-> leadId,
                    manager_id |-> managerId, outcome |-> "booked",
                    meeting_id |-> meetingId]),
         outbox |->
            enqueueConfirmation(st.outbox,
                [message_id |-> messageId, booking_id |-> bookingId,
                 meeting_id |-> meetingId, delivery_status |-> "queued"]),
         hold_success |-> TRUE,
         event_success |-> eventResult.result.success]

\* the confirmed times of the BookingIntents: the instants the requests confirm
IntentTimes == ConfirmedTimes \ {NoTs}

\* POST /voice/transcript for a session whose state machine holds a
\* BookingIntent
voiceTranscriptBooking ==
    /\ Len(bookingStore) < MaxBookings
    /\ MeetingIds \ DOMAIN eventStore # {}
    /\ \E leadId \in LeadIds, managerId \in ManagerIds,
          confirmedTime \in IntentTimes, gateValid \in BOOLEAN :
          LET r == transcriptBookingCall(bookState, now, leadId, managerId,
                                         confirmedTime, gateValid)
          IN  /\ Becomes(r.cal)
              /\ bookingStore' = r.bookingStore
              /\ taskStore' = r.taskStore
              /\ outbox' = r.outbox
    /\ UNCHANGED sentEvents
    /\ UNCHANGED now
    /\ UNCHANGED sessionVars
    /\ UNCHANGED attemptVars

\* drainOutbox run by the worker or by a caller; the messages whose template
\* fails to render are drawn from the queued ones
drainOutbox ==
    /\ \E throwing \in SUBSET {outbox[k].message_id : k \in DOMAIN outbox} :
          LET r == drainOutboxCall([outbox |-> outbox,
                                    sentEvents |-> sentEvents], throwing)
          IN  /\ outbox' = r.outbox
              /\ sentEvents' = r.sentEvents
    /\ UNCHANGED <<bookingStore, taskStore>>
    /\ UNCHANGED now
    /\ UNCHANGED calendarVars
    /\ UNCHANGED sessionVars
    /\ UNCHANGED attemptVars

\* ------------------------------------------------------------ specifications
Next == applyNextState

\* one call session from createCallSession on
Spec == Init /\ [][Next]_vars

\* one call session picked up fresh or right after the opener
SpecAfterOpener == InitAfterOpener /\ [][Next]_vars

NextCalendar == Tick \/ getAvailability \/ placeHold \/ createEvent

\* the calendar stores as created, beside one fresh call session
InitCalendarService ==
    /\ state_machine = initialState(CHOOSE c \in ConversationContext : TRUE)
    /\ currentState = "none"
    /\ selectedTime = Undefined
    /\ InitCalendar
    /\ InitAttempts
    /\ InitBooking

\* the calendar store under any sequence of calls and passage of time
SpecCalendar == InitCalendarService /\ [][NextCalendar]_vars

NextAttempts == advanceClock \/ recordAttempt

\* the attempt store as created, beside one fresh call session and the
\* calendar stores as created
InitAttemptService ==
    /\ state_machine = initialState(CHOOSE c \in ConversationContext : TRUE)
    /\ currentState = "none"
    /\ selectedTime = Undefined
    /\ InitCalendar
    /\ InitAttempts
    /\ InitBooking

\* the attempt store under any sequence of recorded attempts and passage of
\* time
SpecAttempts == InitAttemptService /\ [][NextAttempts]_vars

NextTranscript == processTranscript

\* the session createCallSession makes for a call, beside the stores as
\* created
InitTranscript ==
    /\ state_machine = createCallSession("call-1", "lead-1")
    /\ currentState = "none"
    /\ selectedTime = Undefined
    /\ InitCalendar
    /\ InitAttempts
    /\ InitBooking

\* one call session under any sequence of transcripts
SpecTranscript == InitTranscript /\ [][NextTranscript]_vars

NextBooking == Tick \/ book \/ drainOutbox

\* the stores POST /book and the outbox worker write to as created, beside
\* one fresh call session
InitBookingService ==
    /\ state_machine = initialState(CHOOSE c \in ConversationContext : TRUE)
    /\ currentState = "none"
    /\ selectedTime = Undefined
    /\ InitCalendar
    /\ InitAttempts
    /\ InitBooking

\* the stores under any sequence of POST /book requests, outbox drains and
\* passage of time
SpecBooking == InitBookingService /\ [][NextBooking]_vars

NextCoordinator == Tick \/ book \/ voiceTranscriptBooking

\* the stores under any sequence of bookings made through POST /book and
\* through POST /voice/transcript and passage of time
SpecCoordinator == InitBookingService /\ [][NextCoordinator]_vars

TypeOK ==
    /\ state_machine.current \in State
    /\ Cardinality(state_machine.booking_intent) <= 1

\* ===================================================== conversation claims
\* the state nextState returns for the session's state and one input
After(input) == nextState(state_machine, input)

BothLinesDelivered(state) ==
    /\ Truthy(state.mandatory_lines.identification)
    /\ Truthy(state.mandatory_lines.purpose)

ConsentObtained(state) ==
    /\ state.mandatory_lines.consent_to_proceed = "true"
    /\ Truthy(state.context.recording_required)
          => state.mandatory_lines.recording_consent = "true"

\* C1: a BookingIntent, whenever one exists, has explicit_confirmation true,
\* and every call that turns "no BookingIntent" into "a BookingIntent" carried
\* input.explicit_confirmation == true.
C1_IntentOnlyFromExplicitConfirmation ==
    /\ [](\A b \in state_machine.booking_intent :
              b.explicit_confirmation = "true")
    /\ [][(state_machine.booking_intent = {} /\ state_machine'.booking_intent # {})
            => \A input \in Inputs :
                  state_machine' = After(input)
                      => input.explicit_confirmation = "true"]_vars

C1_Witness ==
    /\ state_machine.current = "End"
    /\ state_machine.booking_intent # {}

\* C2: in Confirm no BookingIntent exists yet, and every input without
\* explicit_confirmation == true and without an opt_out / transfer intent
\* leaves the machine in Confirm with no BookingIntent, however often it is
\* retried; no input without explicit_confirmation == true reaches End.
C2_ConfirmStaysWithoutExplicitConfirmation ==
    state_machine.current = "Confirm" =>
        /\ state_machine.booking_intent = {}
        /\ \A input \in Inputs :
              input.explicit_confirmation # "true" =>
                  LET after == After(input)
                  IN  /\ after.current # "End"
                      /\ after.booking_intent = {}
                      /\ input.intent \notin {"opt_out", "transfer"}
                            => after.current = "Confirm"

\* a retry in Confirm that stayed there although date and time are populated
C2_Witness ==
    /\ currentState = "Confirm"
    /\ state_machine.current = "Confirm"
    /\ Truthy(state_machine.slots.confirmed_time)
    /\ Truthy(state_machine.slots.confirmed_date)

\* C4: in OptOut, Transfer, Voicemail and End every input returns a state with
\* the same current, the same history and the same booking_intent.
C4_TerminalStatesAbsorbing ==
    [][isTerminalState(state_machine.current) =>
          /\ state_machine'.current = state_machine.current
          /\ state_machine'.history = state_machine.history
          /\ state_machine'.booking_intent = state_machine.booking_intent]_vars

\* a call applied to the machine after it ended with a BookingIntent
C4_Witness ==
    /\ currentState = "End"
    /\ state_machine.current = "End"
    /\ state_machine.booking_intent # {}

\* C5 (as claimed): from every non-terminal state a call with intent opt_out
\* moves the machine to OptOut.
C5_OptOutFromEveryState ==
    [][(/\ ~isTerminalState(state_machine.current)
        /\ \E input \in Inputs :
              /\ input.intent = "opt_out"
              /\ state_machine' = After(input))
          => state_machine'.current = "OptOut"]_vars

C7_IdentifyContactAdvances ==
    [][state_machine.current = "IdentifyContact" =>
          \A input \in Inputs :
              state_machine' = After(input) =>
                  /\ state_machine'.current = "ConsentGate"
                        <=> BothLinesDelivered(state_machine')
                  /\ (KwIdentify \in input.text /\ KwPurpose \in input.text)
                        => /\ state_machine'.current = "ConsentGate"
                           /\ BothLinesDelivered(state_machine')
                  /\ (/\ input.text \cap {KwIdentify, KwContactName, KwPurpose} = {}
                      /\ input.intent \notin {"transfer", "voicemail"})
                        => state_machine'.current = "IdentifyContact"]_vars

\* C8: ConsentGate is left for Qualify only with consent_to_proceed satisfied
\* and, when the context requires recording, recording_consent satisfied; so
\* every state in Qualify, ProposeTime or Confirm and every state holding a
\* BookingIntent has those lines true.
C8_ConsentBeforeQualify ==
    /\ (\/ state_machine.current \in {"Qualify", "ProposeTime", "Confirm"}
        \/ state_machine.booking_intent # {})
          => ConsentObtained(state_machine)
    /\ state_machine.current = "ConsentGate" =>
          \A input \in Inputs :
              LET after == After(input)
              IN  after.current = "Qualify" => ConsentObtained(after)

\* a call with recording required that has got as far as proposing a time
C8_Witness ==
    /\ state_machine.current = "ProposeTime"
    /\ state_machine.context.recording_required = "true"
    /\ state_machine.mandatory_lines.recording_consent = "true"

\* every combination of the five qualification slots a caller can supply
QualificationSlots ==
    [authority : OptBool, need : NeedValues, timing : TimingValues,
     budget_indicator : BudgetValues, pain_stated : OptBool,
     confirmed_date : {Undefined}, confirmed_time : {Undefined}]

QualificationInputs ==
    {[NoInput EXCEPT !.intent = i, !.slots = s] :
        i \in {Undefined, "qualify", "disqualify"}, s \in QualificationSlots}

\* the inputs a call in Qualify is tried with that do not leave by intent
ContinuingInputs ==
    {input \in Inputs \cup QualificationInputs :
        input.intent \notin {"opt_out", "transfer", "disqualify"}}

\* the inputs a call in Qualify is tried with that carry intent disqualify
DisqualifyInputs ==
    {input \in Inputs \cup QualificationInputs : input.intent = "disqualify"}

\* the qualification predicate as the specification words it
StatedQualification(slots) ==
    /\ slots.authority = "true"
    /\ slots.need = "high" \/ (slots.need = "medium" /\ slots.pain_stated = "true")
    /\ slots.timing \in {"this_quarter", "next_quarter"}
    /\ \/ slots.budget_indicator = "present"
       \/ (slots.budget_indicator = "unknown" /\ slots.need = "high")

\* C9: in Qualify, an input without opt_out / transfer / disqualify intent
\* moves the machine to ProposeTime exactly when the resulting slots satisfy
\* the stated predicate, and otherwise leaves it in Qualify.
C9_QualifyExactlyWhenPredicateHolds ==
    state_machine.current = "Qualify" =>
        \A input \in ContinuingInputs :
            LET after == After(input)
            IN  after.current =
                    IF StatedQualification(after.slots)
                    THEN "ProposeTime" ELSE "Qualify"

\* medium need qualified by a stated pain: the machine has just left Qualify
C9_Witness ==
    /\ currentState = "Qualify"
    /\ state_machine.current = "ProposeTime"
    /\ state_machine.slots.need = "medium"
    /\ state_machine.slots.pain_stated = "true"

\* C10: in Qualify an input with intent disqualify moves the machine to End
\* with no BookingIntent, also when the resulting slots qualify.
C10_DisqualifyEndsWithoutIntent ==
    state_machine.current = "Qualify" =>
        \A input \in DisqualifyInputs :
            LET after == After(input)
            IN  /\ after.current = "End"
                /\ after.booking_intent = {}

\* a disqualified call whose slots satisfy the qualification predicate
C10_Witness ==
    /\ currentState = "Qualify"
    /\ state_machine.current = "End"
    /\ state_machine.booking_intent = {}
    /\ isQualified(state_machine.slots)

\* C11: ProposeTime is left for Confirm only by an input with intent confirm,
\* a selected_time and explicit_confirmation true, and then confirmed_date and
\* confirmed_time both equal that selected_time; an input missing one of the
\* three, without an opt_out / transfer intent, leaves the machine in
\* ProposeTime.
C11_ConfirmNeedsIntentTimeAndConfirmation ==
    state_machine.current = "ProposeTime" =>
        \A input \in Inputs :
            LET after == After(input)
                complete == /\ input.intent = "confirm"
                            /\ input.selected_time # Undefined
                            /\ input.explicit_confirmation = "true"
            IN  /\ after.current = "Confirm" =>
                      /\ complete
                      /\ after.slots.confirmed_date = input.selected_time
                      /\ after.slots.confirmed_time = input.selected_time
                /\ (~complete /\ input.intent \notin {"opt_out", "transfer"})
                      => after.current = "ProposeTime"

\* the machine has just moved from ProposeTime to Confirm with a time selected
C11_Witness ==
    /\ currentState = "ProposeTime"
    /\ state_machine.current = "Confirm"
    /\ state_machine.slots.confirmed_date = TimeStr(1)
    /\ state_machine.slots.confirmed_time = TimeStr(1)

C13_ExplicitSlotWins ==
    \A input \in Inputs :
        \A k \in {"authority", "timing"} :
            input.slots[k] # Undefined => After(input).slots[k] = input.slots[k]

\* the result of nextState is a well-formed StateMachineState
IsStateMachineState(s) ==
    /\ s.current \in State
    /\ s.slots.authority \in OptBool
    /\ s.slots.pain_stated \in OptBool
    /\ s.slots.need \in NeedValues
    /\ s.slots.timing \in TimingValues
    /\ s.slots.budget_indicator \in BudgetValues
    /\ \A k \in DOMAIN s.mandatory_lines : s.mandatory_lines[k] \in OptBool
    /\ Cardinality(s.booking_intent) <= 1
    /\ \A i \in 1..Len(s.history) : s.history[i] \in State

C15_LinesAndSlotsMonotonic ==
    [][/\ \A k \in DOMAIN state_machine.mandatory_lines :
             state_machine.mandatory_lines[k] = "true"
                 => state_machine'.mandatory_lines[k] = "true"
       /\ \A k \in DOMAIN state_machine.slots :
             state_machine.slots[k] # Undefined
                 => state_machine'.slots[k] # Undefined]_vars

\* a state with consent delivered and slots filled, after a call made in it
C15_Witness ==
    /\ currentState = "Qualify"
    /\ state_machine.current = "Qualify"
    /\ state_machine.mandatory_lines.consent_to_proceed = "true"
    /\ state_machine.slots.need # Undefined
    /\ state_machine.slots.timing # Undefined

\* ========================================================= calendar claims
\* the live reservations of a manager: its events and its unexpired holds
liveReservations(m) ==
    {[kind |-> "event", key |-> i,
      start_utc |-> managerEvents[m][i].start_utc,
      end_utc |-> managerEvents[m][i].end_utc] : i \in 1..Len(managerEvents[m])}
    \cup
    {[kind |-> "hold", key |-> managerHolds[m][i].hold.tentative_id,
      start_utc |-> managerHolds[m][i].hold.start_utc,
      end_utc |-> managerHolds[m][i].hold.end_utc] :
        i \in {j \in 1..Len(managerHolds[m]) : managerHolds[m][j].expires_at > now}}

\* C3 (as claimed): no two distinct live reservations of a manager intersect
\* once the 10-minute buffer is added on both sides of both intervals.
C3_DisjointWithBothBuffered ==
    \A m \in ManagerIds :
        \A a, b \in liveReservations(m) :
            a # b =>
                ~(/\ a.start_utc - BUFFER_MS < b.end_utc + BUFFER_MS
                  /\ b.start_utc - BUFFER_MS < a.end_utc + BUFFER_MS)

\* C3 (amended): no two distinct live reservations of a manager intersect once
\* the 10-minute buffer is added on both sides of one of them: the later one
\* starts at least 10 minutes after the earlier one ends.
C3_DisjointWithOneBuffered ==
    \A m \in ManagerIds :
        \A a, b \in liveReservations(m) :
            a # b =>
                \/ a.end_utc + BUFFER_MS <= b.start_utc
                \/ b.end_utc + BUFFER_MS <= a.start_utc

\* an event and a live hold of one manager exactly 10 minutes apart
C3_Witness ==
    \E m \in ManagerIds :
        \E a, b \in liveReservations(m) :
            /\ a.kind = "event"
            /\ b.kind = "hold"
            /\ a.end_utc + BUFFER_MS = b.start_utc

\* the live reservations of manager m that lie within the buffer of [start, end]
Conflicting(m, start, end) ==
    {x \in liveReservations(m) :
        ~(x.end_utc + BUFFER_MS <= start \/ end + BUFFER_MS <= x.start_utc)}

\* C16: placeHold with ttl_seconds below 300 or above 1800 returns a failure
\* result and leaves the hold and event stores as they were; with ttl_seconds
\* in [300, 1800] and an interval that conflicts with nothing it succeeds.
C16_TtlOutsideRangeRejected ==
    \A params \in HoldParams :
        LET r == placeHoldCall(calendar, now, params, TRUE)
        IN  /\ (params.ttl_seconds < 300 \/ params.ttl_seconds > 1800) =>
                  /\ ~r.result.success
                  /\ r.result.error = ErrTtl
                  /\ r.cal = calendar
            /\ (/\ params.ttl_seconds >= 300
                /\ params.ttl_seconds <= 1800
                /\ Conflicting(params.manager_id, params.start_utc,
                               params.end_utc) = {})
                  => r.result.success

\* a hold and an event are stored, and on an interval that is free a hold
\* with the longest TTL is accepted and one a second longer is refused
C16_Witness ==
    /\ DOMAIN holdStore # {}
    /\ DOMAIN eventStore # {}
    /\ \E params \in HoldParams :
          /\ params.ttl_seconds = 1800
          /\ Conflicting(params.manager_id, params.start_utc, params.end_utc) = {}
          /\ placeHoldCall(calendar, now, params, TRUE).result.success
          /\ placeHoldCall(calendar, now, [params EXCEPT !.ttl_seconds = 1801],
                           TRUE).result.error = ErrTtl

\* what C17 says of a placeHold call with a valid TTL and a well-formed hold,
\* given the hold stores a rejected call is to leave
HoldPlacementRule(keptHoldStore, keptManagerHolds) ==
    \A params \in {p \in HoldParams : ttlValid(p.ttl_seconds)} :
        LET m == params.manager_id
            r == placeHoldCall(calendar, now, params, TRUE)
            id == r.result.tentative_id
        IN  /\ Conflicting(m, params.start_utc, params.end_utc) # {} =>
                  /\ ~r.result.success
                  /\ r.result.error = ErrOverlap
                  /\ r.cal.eventStore = eventStore
                  /\ r.cal.managerEvents = managerEvents
                  /\ r.cal.holdStore = keptHoldStore
                  /\ r.cal.managerHolds = keptManagerHolds
            /\ r.result.success =>
                  /\ id \notin 1..uuidCount
                  /\ DOMAIN r.cal.holdStore = DOMAIN cleanedHoldStore \cup {id}
                  /\ \A h \in DOMAIN cleanedHoldStore :
                        r.cal.holdStore[h] = cleanedHoldStore[h]
                  /\ r.cal.holdStore[id].hold =
                        [tentative_id |-> id, manager_id |-> m,
                         start_utc |-> params.start_utc,
                         end_utc |-> params.end_utc,
                         ttl_seconds |-> params.ttl_seconds]
                  /\ r.cal.managerHolds[m] =
                        Append(cleanedManagerHolds[m], r.cal.holdStore[id])
                  /\ \A o \in ManagerIds \ {m} :
                        r.cal.managerHolds[o] = cleanedManagerHolds[o]
                  /\ r.cal.eventStore = eventStore
                  /\ r.cal.managerEvents = managerEvents
            /\ ~r.result.success =>
                  Conflicting(m, params.start_utc, params.end_utc) # {}

\* C17 (as claimed): a placeHold that conflicts with an event or unexpired
\* hold of its manager fails with the overlap error and changes no stored hold
\* or event; a successful one stores exactly one new hold under a fresh id,
\* in the hold store and in its manager's list; reservations of other
\* managers cause no rejection.
C17_RejectedHoldChangesNothing ==
    HoldPlacementRule(holdStore, managerHolds)

\* C17 (amended): as above, but a rejected placeHold changes no event and no
\* unexpired hold: holds whose TTL has elapsed are purged by it.
C17_RejectedHoldKeepsLiveHolds ==
    HoldPlacementRule(cleanedHoldStore, cleanedManagerHolds)

\* a hold whose TTL has elapsed is still stored while a placeHold is rejected
\* for overlapping an event, and the other manager has nothing reserved
C17_Witness ==
    /\ \E id \in DOMAIN holdStore : holdStore[id].expires_at <= now
    /\ \E m \in ManagerIds :
          /\ Len(managerEvents[m]) = 1
          /\ \A o \in ManagerIds \ {m} : liveReservations(o) = {}
          /\ \E params \in HoldParams :
                /\ params.manager_id = m
                /\ placeHoldCall(calendar, now, params, TRUE).result.error
                        = ErrOverlap

MinuteMs == 60 * 1000

\* lengths of the single reservation the shifted candidates are tried against
ReservationLengths == {1 * MinuteMs, 9 * MinuteMs, SlotDurationMs}

\* the results of placing a hold and of creating an event on [start, end]
BothResults(cal, time, m, start, end) ==
    {placeHoldCall(cal, time,
                   [manager_id |-> m, start_utc |-> start, end_utc |-> end,
                    ttl_seconds |-> 300], TRUE).result,
     createEventCall(cal, time,
                     [meeting_id |-> "meeting-2", manager_id |-> m,
                      start_utc |-> start, end_utc |-> end,
                      iCal_uid |-> Undefined], TRUE).result}

\* C18: for a reservation [s, e] of a manager, a candidate hold or event of
\* that manager on [s - 9min, e - 9min] or on [s + 9min, e + 9min] is rejected
\* as overlapping, and one starting at or after e + 11min, with no other
\* reservation near it, is accepted.  Stated of every live reservation of a
\* reachable store, and, at every time of call, of a store holding one
\* reservation of any length.
C18_NineMinutesRejectedElevenAccepted ==
    /\ \A m \in ManagerIds : \A x \in liveReservations(m) :
          /\ \A shift \in {-9 * MinuteMs, 9 * MinuteMs} :
                \A r \in BothResults(calendar, now, m,
                                     x.start_utc + shift, x.end_utc + shift) :
                    ~r.success /\ r.error = ErrOverlap
          /\ \A gap \in {11 * MinuteMs, 12 * MinuteMs, 60 * MinuteMs} :
                LET start == x.end_utc + gap
                    end == start + SlotDurationMs
                IN  Conflicting(m, start, end) = {} =>
                        \A r \in BothResults(calendar, now, m, start, end) :
                            r.success
    /\ calendar = EmptyCalendar =>
        \A m \in ManagerIds, length \in ReservationLengths,
          kind \in {"hold", "event"} :
          LET s == 20 * MinuteMs
              e == s + length
              one == IF kind = "hold"
                     THEN placeHoldCall(EmptyCalendar, now,
                              [manager_id |-> m, start_utc |-> s, end_utc |-> e,
                               ttl_seconds |-> 1800], TRUE).cal
                     ELSE createEventCall(EmptyCalendar, now,
                              [meeting_id |-> "meeting-1", manager_id |-> m,
                               start_utc |-> s, end_utc |-> e,
                               iCal_uid |-> Undefined], TRUE).cal
          IN  /\ \A shift \in {-9 * MinuteMs, 9 * MinuteMs} :
                    \A r \in BothResults(one, now, m, s + shift, e + shift) :
                        ~r.success /\ r.error = ErrOverlap
              /\ \A gap \in {11 * MinuteMs, 12 * MinuteMs, 60 * MinuteMs} :
                    \A r \in BothResults(one, now, m, e + gap, e + gap + length) :
                        r.success

\* a hold and an event of one manager are stored, so that a candidate after
\* the earlier one has another reservation near it
C18_Witness ==
    \E m \in ManagerIds :
        \E x, y \in liveReservations(m) :
            /\ x.kind = "hold"
            /\ y.kind = "event"
            /\ x.end_utc < y.start_utc

\* C19: without an iCal_uid supplied, the UID createEvent returns on an empty
\* store depends on meeting_id and start_utc only: not on the manager, the
\* end, the time of the call or what the store held before.
C19_UidFunctionOfBookingAndStart ==
    \A e1 \in EventParams :
        LET empty == createEventCall(EmptyCalendar, now, e1, TRUE).result
        IN  /\ empty.success
            /\ empty.iCal_uid # Undefined
            /\ liveReservations(e1.manager_id) = {} =>
                    createEventCall(calendar, now, e1, TRUE).result = empty
            /\ calendar = EmptyCalendar =>
                    \A e2 \in {[e1 EXCEPT !.manager_id = m,
                                          !.end_utc = e1.start_utc + d] :
                                m \in ManagerIds, d \in {MinuteMs, SlotDurationMs}} :
                        \A gateValid \in BOOLEAN :
                            createEventCall(EmptyCalendar, 0, e2, gateValid)
                                .result.iCal_uid
                            = createEventCall(EmptyCalendar, now, e1,
                                              gateValid).result.iCal_uid

\* the one event stored was created after the one hold ever placed had
\* expired, and carries the UID of its meeting_id and start_utc
C19_Witness ==
    /\ eventCount = 1
    /\ uuidCount = 1
    /\ now > 0
    /\ DOMAIN holdStore = {}
    /\ \E m \in ManagerIds :
          /\ Len(managerEvents[m]) = 1
          /\ managerEvents[m][1].iCal_uid =
                generateICalUid(managerEvents[m][1].meeting_id,
                                managerEvents[m][1].start_utc)

\* C20 (as claimed): createEvent called again with the meeting_id and
\* start_utc of a stored event succeeds, returns the same iCal_uid and leaves
\* exactly one stored event for that booking on the manager's timeline.
C20_ResubmittedEventIdempotent ==
    \A m \in ManagerIds : \A i \in 1..Len(managerEvents[m]) :
        LET stored == managerEvents[m][i]
            r == createEventCall(calendar, now,
                                 [stored EXCEPT !.iCal_uid = Undefined], TRUE)
        IN  /\ r.result.success
            /\ r.result.iCal_uid = stored.iCal_uid
            /\ Cardinality({j \in 1..Len(r.cal.managerEvents[m]) :
                    r.cal.managerEvents[m][j].meeting_id = stored.meeting_id}) = 1

\* C21 (as claimed): once createEvent has stored an event for a meeting_id, no
\* later createEvent, also one with the same meeting_id and another time that
\* conflicts with nothing, changes the event getEvent returns for it; and a
\* manager's event list holds at most one event per meeting_id, the one in the
\* event store.
C21_StoredEventImmutable ==
    /\ \A m \in ManagerIds : \A i, j \in 1..Len(managerEvents[m]) :
          /\ eventStore[managerEvents[m][i].meeting_id] = managerEvents[m][i]
          /\ managerEvents[m][i].meeting_id = managerEvents[m][j].meeting_id
                => i = j
    /\ \A event \in EventParams :
          LET r == createEventCall(calendar, now, event, TRUE)
          IN  \A id \in DOMAIN eventStore :
                  r.cal.eventStore[id] = eventStore[id]

\* the ids of the live holds of manager m that start within a second of start
PromotedHolds(m, start) ==
    {x.key : x \in {y \in liveReservations(m) :
                        /\ y.kind = "hold"
                        /\ y.start_utc - start < 1000
                        /\ start - y.start_utc < 1000}}

\* the stores with every hold in them, and with the unexpired holds only
AllHolds(cal) == cal

LiveHolds(cal) == cleanupExpiredHolds(cal, now)

\* what C22 says of every createEvent call, Holds telling which holds of a
\* store the call is to leave untouched
HoldPromotionRule(Holds(_)) ==
    \A event \in EventParams : \A gateValid \in BOOLEAN :
        LET m == event.manager_id
            r == createEventCall(calendar, now, event, gateValid)
            before == Holds(calendar)
            after == Holds(r.cal)
            promoted == PromotedHolds(m, event.start_utc)
            others == DOMAIN before.holdStore \ promoted
        IN  /\ (/\ gateValid
                /\ promoted # {}
                /\ \A x \in Conflicting(m, event.start_utc, event.end_utc) :
                      x.kind = "hold" /\ x.key \in promoted)
                  => r.result.success
            /\ (r.result.success /\ promoted # {}) =>
                  /\ DOMAIN r.cal.holdStore \cap promoted = {}
                  /\ \A i \in 1..Len(r.cal.managerHolds[m]) :
                        r.cal.managerHolds[m][i].hold.tentative_id \notin promoted
                  /\ DOMAIN after.holdStore = others
                  /\ \A id \in others : after.holdStore[id] = before.holdStore[id]
                  /\ after.managerHolds[m] = SelectSeqBy(before.managerHolds[m], others)
                  /\ \A o \in ManagerIds \ {m} :
                        after.managerHolds[o] = before.managerHolds[o]
                  /\ r.cal.eventStore[event.meeting_id].start_utc = event.start_utc
                  /\ r.cal.eventStore[event.meeting_id].manager_id = m
                  /\ r.cal.managerEvents[m] =
                        Append(managerEvents[m], r.cal.eventStore[event.meeting_id])
            /\ ~r.result.success =>
                  /\ after.holdStore = before.holdStore
                  /\ after.managerHolds = before.managerHolds
                  /\ r.cal.eventStore = eventStore
                  /\ r.cal.managerEvents = managerEvents

C23_AvailabilityMatchesPlaceHold ==
    \A m \in ManagerIds, window \in Windows :
        LET r == getAvailabilityCall(calendar, now, m, window)
            slots == r.result
            n == Len(slots)
        IN  /\ n * SlotDurationMs >= window.to - window.from
            /\ n > 0 => (n - 1) * SlotDurationMs < window.to - window.from
            /\ \A i \in 1..n :
                  /\ slots[i].start_utc = window.from + (i - 1) * SlotDurationMs
                  /\ slots[i].end_utc = slots[i].start_utc + SlotDurationMs
                  /\ slots[i].available =
                        (Conflicting(m, slots[i].start_utc, slots[i].end_utc) = {})
                  /\ \A ttl \in {300, 1800} :
                        slots[i].available =
                            placeHoldCall(r.cal, now,
                                [manager_id |-> m,
                                 start_utc |-> slots[i].start_utc,
                                 end_utc |-> slots[i].end_utc,
                                 ttl_seconds |-> ttl], TRUE).result.success
            /\ r.cal.eventStore = eventStore
            /\ r.cal.managerEvents = managerEvents
            /\ r.cal.holdStore = cleanedHoldStore
            /\ r.cal.managerHolds = cleanedManagerHolds
            /\ r.cal.uuidCount = uuidCount

\* a manager with an event and a live hold gets a window of three slots of
\* which some are available and some are not, while an expired hold is gone
C23_Witness ==
    /\ \E m \in ManagerIds :
          /\ Len(managerEvents[m]) > 0
          /\ \E window \in Windows :
                LET slots == getAvailabilityCall(calendar, now, m, window).result
                IN  /\ Len(slots) = 3
                    /\ \E i, j \in 1..3 :
                          slots[i].available /\ ~slots[j].available
    /\ now > 0
    /\ uuidCount > 0
    /\ DOMAIN holdStore = {}

\* ------------------------------------------------- attempt scheduler claims
\* the currentTime a caller passes to scheduleAttempt: none, or the clock's
\* instant of the week before or of the week after
GivenTimes(clock) == {NoTs, clock - WeekMinutes, clock + WeekMinutes}

\* the `now` scheduleAttempt works with
nowOf(clock, currentTime) == IF currentTime = NoTs THEN clock ELSE currentTime

\* the attempts of the ISO week (Monday 00:00 UTC included to the next Monday
\* excluded) that contains the time
attemptsInWeekOf(attempts, time) ==
    getAttemptsInWindow(attempts, mondayOf(time), mondayOf(time) + WeekMinutes)

\* C24: with three or more attempts in the ISO week containing the `now`
\* given to scheduleAttempt the lead is blocked with WEEKLY_LIMIT_EXCEEDED and
\* next_attempt_ts is the start of the region's window on the Monday after
\* `now`; with fewer attempts in that week, whatever earlier weeks hold, the
\* lead is not blocked for the weekly limit.
C24_WeeklyCapCountsWeekOfNow ==
    \A leadId \in LeadIds, region \in Regions,
       currentTime \in GivenTimes(wallClock) :
        LET time == nowOf(wallClock, currentTime)
            r == scheduleAttempt(attemptStore, wallClock, leadId, region,
                                 currentTime)
        IN  IF Len(attemptsInWeekOf(attemptStore[leadId], time)) >= 3
            THEN /\ r.eligible = FALSE
                 /\ r.block_reason = "WEEKLY_LIMIT_EXCEEDED"
                 /\ r.next_attempt_ts =
                        setUTCHours(mondayOf(time) + WeekMinutes,
                                    getTimeWindow(region).start)
            ELSE r.block_reason # "WEEKLY_LIMIT_EXCEEDED"

\* the attempts with the latest timestamp: the most recent ones
mostRecentAttempts(attempts) ==
    {attempts[i] : i \in {i \in DOMAIN attempts :
        \A j \in DOMAIN attempts :
            attempts[j].timestamp <= attempts[i].timestamp}}

\* fewer than three attempts in the week of the time and in the week of the
\* clock: the weekly cap is not reached, whichever week is counted
capNotReached(attempts, clock, time) ==
    /\ Len(attemptsInWeekOf(attempts, time)) < 3
    /\ Len(attemptsInWeekOf(attempts, clock)) < 3

\* the instants scheduleAttempt is asked at after an attempt at T
TimesAfter(T) ==
    {T, T + 14, T + 15, T + DayMinutes - 1, T + DayMinutes}

\* the time lies in the region's window
inWindow(region, time) ==
    LET window == getTimeWindow(region)
        hour == getUTCHours(time)
    IN  IF window.start <= window.end
        THEN window.start <= hour /\ hour < window.end
        ELSE hour >= window.start \/ hour < window.end

\* C25: when the most recent attempt ended busy at T and the weekly cap is not
\* reached, scheduleAttempt at a now with T <= now < T + 15 min returns
\* eligible with the busy attempt's number and retry_after_ts = T + 15 min,
\* and at a now >= T + 15 min inside the region's window it returns eligible
\* with that number plus one and no retry_after_ts.
C25_BusyRetryThenNewAttempt ==
    \A leadId \in LeadIds :
        LET attempts == attemptStore[leadId]
        IN  /\ Len(attempts) > 0
            /\ \A a \in mostRecentAttempts(attempts) : a.outcome = "busy"
            => LET last == getLastAttempt(attempts)
                   T == last.timestamp
               IN  \A region \in Regions, time \in TimesAfter(T) :
                      LET r == scheduleAttempt(attemptStore, wallClock,
                                               leadId, region, time)
                      IN  capNotReached(attempts, wallClock, time)
                          => /\ time < T + 15
                                => /\ r.eligible
                                   /\ r.attempt_no = last.attempt_no
                                   /\ r.retry_after_ts = T + 15
                             /\ time >= T + 15 /\ inWindow(region, time)
                                => /\ r.eligible
                                   /\ r.attempt_no = last.attempt_no + 1
                                   /\ r.retry_after_ts = NoTs

\* the busy short-retry rule applies: a most recent attempt ended busy less
\* than 15 minutes before the time
busyRetryApplies(attempts, time) ==
    \E a \in mostRecentAttempts(attempts) :
        a.outcome = "busy" /\ time - a.timestamp < 15

ProbedHours == {0, 1, 8, 13, 16, 17, 21}

\* instants of the day of a time, one in each probed hour
TimesOfDay(time) == {setUTCHours(time, h) + 30 : h \in ProbedHours}

\* the time precedes the region's window on its day
precedesWindow(region, time) ==
    getUTCHours(time) < getTimeWindow(region).start

\* C27: when neither the weekly cap nor the busy retry nor the spacing rule
\* applies, scheduleAttempt returns eligible = true with the last attempt's
\* number plus one (1 without attempts) exactly when the UTC hour of now lies
\* in the region's window, and otherwise OUTSIDE_TIME_WINDOW with
\* next_attempt_ts at the window start of today when now precedes the window
\* and of tomorrow when it does not; a region that is not known is treated as
\* DEFAULT.
C27_WindowDecidesEligibility ==
    \A leadId \in LeadIds :
        LET attempts == attemptStore[leadId]
            from == IF Len(attempts) = 0 THEN wallClock
                    ELSE getLastAttempt(attempts).timestamp + 2 * DayMinutes
            nextNo == IF Len(attempts) = 0 THEN 1
                      ELSE getLastAttempt(attempts).attempt_no + 1
        IN  \A region \in Regions, time \in TimesOfDay(from) :
               LET r == scheduleAttempt(attemptStore, wallClock, leadId,
                                        region, time)
               IN  /\ capNotReached(attempts, wallClock, time)
                   /\ Len(attempts) > 0
                        => time - getLastAttempt(attempts).timestamp
                              >= DayMinutes
                   => /\ r.attempt_no = nextNo
                      /\ r.eligible <=> inWindow(region, time)
                      /\ r.eligible
                            => /\ r.block_reason = Undefined
                               /\ r.retry_after_ts = NoTs
                      /\ ~r.eligible
                            => /\ r.block_reason = "OUTSIDE_TIME_WINDOW"
                               /\ r.next_attempt_ts =
                                     IF precedesWindow(region, time)
                                     THEN setUTCHours(time,
                                            getTimeWindow(region).start)
                                     ELSE setUTCHours(time + DayMinutes,
                                            getTimeWindow(region).start)
                      /\ region \notin DOMAIN REGION_TIME_WINDOWS
                            => r = scheduleAttempt(attemptStore, wallClock,
                                                   leadId, "DEFAULT", time)

\* a lead with an attempt on record is, two days later, eligible for the next
\* number inside the window of US_WEST and blocked outside of it
C27_Witness ==
    \E leadId \in LeadIds :
        /\ Len(attemptStore[leadId]) > 0
        /\ LET last == getLastAttempt(attemptStore[leadId])
               day == last.timestamp + 2 * DayMinutes
           IN  /\ scheduleAttempt(attemptStore, wallClock, leadId, "US_WEST",
                                  setUTCHours(day, 0)).eligible
               /\ scheduleAttempt(attemptStore, wallClock, leadId, "US_WEST",
                                  setUTCHours(day, 0)).attempt_no
                      = last.attempt_no + 1
               /\ scheduleAttempt(attemptStore, wallClock, leadId, "US_WEST",
                                  setUTCHours(day, 1)).block_reason
                      = "OUTSIDE_TIME_WINDOW"

\* the attempt numbers on record for a lead
attemptNumbers(attempts) == {attempts[i].attempt_no : i \in DOMAIN attempts}

\* C28 as stated: isVoicemailAllowedForLead is false with no recorded attempt,
\* true after exactly one and false after two or more, the attempts recorded
\* with the numbers scheduleAttempt returned.
C28_VoicemailAfterExactlyOneRecord ==
    \A leadId \in LeadIds :
        isVoicemailAllowedForLead(attemptStore, leadId)
            <=> Len(attemptStore[leadId]) = 1

\* C28, amended: isVoicemailAllowedForLead is true exactly when the next
\* attempt number is 2: false with no recorded attempt, true after exactly
\* one, true as long as every recorded attempt carries the number 1 (an
\* attempt and its busy retries), and false once two or more numbers are on
\* record.
C28_VoicemailOnSecondAttemptNumber ==
    \A leadId \in LeadIds :
        LET attempts == attemptStore[leadId]
            allowed == isVoicemailAllowedForLead(attemptStore, leadId)
        IN  /\ allowed <=> getNextAttemptNo(attempts) = 2
            /\ Len(attempts) = 0 => ~allowed
            /\ Len(attempts) = 1 => allowed
            /\ allowed <=> attemptNumbers(attempts) = {1}
            /\ Cardinality(attemptNumbers(attempts)) >= 2 => ~allowed

\* a lead has a busy attempt and its retry five minutes later on record, both
\* under the number 1, and may be left a voicemail
C28_Witness ==
    \E leadId \in LeadIds :
        /\ Len(attemptStore[leadId]) = 2
        /\ attemptNumbers(attemptStore[leadId]) = {1}
        /\ attemptStore[leadId][2].timestamp
              = attemptStore[leadId][1].timestamp + 5
        /\ isVoicemailAllowedForLead(attemptStore, leadId)

\* every record of before is still there, in its place and as it was
recordsKept ==
    \A leadId \in LeadIds :
        /\ Len(attemptStore'[leadId]) >= Len(attemptStore[leadId])
        /\ SubSeq(attemptStore'[leadId], 1, Len(attemptStore[leadId]))
              = attemptStore[leadId]

\* at most one lead's records have changed
oneLeadWritten ==
    \A leadId, other \in LeadIds :
        leadId # other /\ attemptStore'[leadId] # attemptStore[leadId]
            => attemptStore'[other] = attemptStore[other]

\* C29 as stated: with every attempt recorded under the attempt_no
\* scheduleAttempt returned, the attempt numbers of a lead are, in recording
\* order, strictly increasing and gapless (1, 2, 3, ...), and no record is
\* modified or removed by a later call, a recordAttempt for another lead
\* included.
C29_NumbersStrictlyIncreasing ==
    /\ [](\A leadId \in LeadIds :
            \A i \in DOMAIN attemptStore[leadId] :
                attemptStore[leadId][i].attempt_no = i)
    /\ [][recordsKept /\ oneLeadWritten]_vars

\* the i-th record repeats the number of the one before it as the retry of an
\* attempt of that number that ended busy less than 15 minutes earlier
isBusyRetryRecord(attempts, i) ==
    /\ attempts[i].attempt_no = attempts[i - 1].attempt_no
    /\ \E j \in 1..(i - 1) :
          /\ attempts[j].attempt_no = attempts[i].attempt_no
          /\ attempts[j].outcome = "busy"
          /\ attempts[i].timestamp - attempts[j].timestamp < 15
          /\ attempts[i].timestamp >= attempts[j].timestamp

\* C29, amended: with every attempt recorded under the attempt_no
\* scheduleAttempt returned, the attempt numbers of a lead start at 1 and, in
\* recording order, each is the one before plus one, or the same as the one
\* before when the record is the retry of a busy attempt; no record is
\* modified or removed by a later call, a recordAttempt for another lead
\* included.
C29_NumbersGaplessWithBusyRetries ==
    /\ [](\A leadId \in LeadIds :
            LET attempts == attemptStore[leadId]
            IN  \A i \in DOMAIN attempts :
                    IF i = 1 THEN attempts[i].attempt_no = 1
                    ELSE \/ attempts[i].attempt_no
                              = attempts[i - 1].attempt_no + 1
                         \/ isBusyRetryRecord(attempts, i))
    /\ [][recordsKept /\ oneLeadWritten]_vars

\* a lead has the numbers 1, 1, 2 on record: an attempt, its busy retry and the
\* attempt after them
C29_Witness ==
    \E leadId \in LeadIds :
        /\ Len(attemptStore[leadId]) = 3
        /\ attemptStore[leadId][1].attempt_no = 1
        /\ attemptStore[leadId][2].attempt_no = 1
        /\ attemptStore[leadId][3].attempt_no = 2

\* ---------------------------------------------------------- POST /book claims
\* C30: a POST /book request that does not carry explicit_confirmation == true
\* is rejected by the pre-booking gate before anything is written: no hold is
\* placed and no booking record, calendar event, CRM task or confirmation
\* message is created.
C30_NoExplicitConfirmationNothingWritten ==
    \A body \in BookRequests :
        body.explicit_confirmation # "true"
        => LET r == bookCall(bookState, now, body)
           IN  /\ r.status = 400
               /\ r.cal.uuidCount = uuidCount
               /\ r.cal.holdStore = holdStore
               /\ r.cal.eventStore = eventStore
               /\ r.bookingStore = bookingStore
               /\ r.taskStore = taskStore
               /\ r.outbox = outbox

\* one of the preferred windows of the request has a slot that is free for
\* the manager at the time
hasFreeSlot(body) ==
    \E i \in DOMAIN body.preferred_windows :
        LET slots == getAvailabilityCall(calendar, now, body.manager_id,
                                         body.preferred_windows[i]).result
        IN  \E k \in DOMAIN slots : slots[k].available

\* the unexpired holds of a manager in the stores cal
liveHoldsOf(cal, m) ==
    {id \in liveIds(cal.holdStore, now) : cal.holdStore[id].hold.manager_id = m}

\* C31: a POST /book request with confirm = false, qualification flags and a
\* free slot in its preferred windows succeeds with status hold_placed:
\* exactly one hold is placed for the manager and no calendar event, CRM task
\* or confirmation message is created.
C31_HoldOnlyRequestPlacesOneHold ==
    \A body \in BookRequests :
        /\ body.confirm = "false"
        /\ body.qualification_flags # {}
        /\ hasFreeSlot(body)
        => LET r == bookCall(bookState, now, body)
           IN  /\ r.status = 200
               /\ r.error = "hold_placed"
               /\ Cardinality(liveHoldsOf(r.cal, body.manager_id))
                     = Cardinality(liveHoldsOf(calendar, body.manager_id)) + 1
               /\ r.cal.eventStore = eventStore
               /\ r.taskStore = taskStore
               /\ r.outbox = outbox

\* the booking records of the confirmed bookings: those POST /book answered
\* with a meeting_id
confirmedBookings(store) ==
    {i \in DOMAIN store : store[i].meeting_id # Undefined}

sentEventsFor(events, messageId) ==
    Cardinality({k \in DOMAIN events : events[k].message_id = messageId})

\* the message ids in the outbox
outboxIds == {outbox[k].message_id : k \in DOMAIN outbox}

\* C33: after drainOutbox returns, every entry that was queued when it
\* started is sent or failed, none is left queued, each such entry has exactly
\* one SentEventRecord, every entry's message.delivery_status equals its
\* status, and a drainOutbox right after it processes 0 messages; an entry
\* that is sent or failed never changes again.
C33_DrainSettlesEveryQueuedEntry ==
    /\ [](\A throwing \in SUBSET outboxIds :
            LET r == drainOutboxCall([outbox |-> outbox,
                                      sentEvents |-> sentEvents], throwing)
            IN  /\ Len(r.outbox) = Len(outbox)
                /\ \A k \in DOMAIN outbox :
                      /\ r.outbox[k].status \in {"sent", "failed"}
                      /\ r.outbox[k].message.delivery_status
                            = r.outbox[k].status
                      /\ sentEventsFor(r.sentEvents, outbox[k].message_id) = 1
                      /\ outbox[k].status # "queued"
                            => r.outbox[k] = outbox[k]
                /\ r.processed
                      = Cardinality({k \in DOMAIN outbox :
                                        outbox[k].status = "queued"})
                /\ r.succeeded + r.failed = r.processed
                /\ \A again \in SUBSET outboxIds :
                      LET r2 == drainOutboxCall(r, again)
                      IN  /\ r2.processed = 0
                          /\ r2.outbox = r.outbox
                          /\ r2.sentEvents = r.sentEvents)
    /\ [][\A k \in DOMAIN outbox :
            outbox[k].status # "queued" => outbox'[k] = outbox[k]]_vars

\* a drain has sent the confirmation of a booking and left its one record
C33_Witness ==
    /\ Len(outbox) = 1
    /\ outbox[1].status = "sent"
    /\ outbox[1].message.delivery_status = "sent"
    /\ Len(sentEvents) = 1
    /\ sentEvents[1].success

\* ======================================================= transcript claims
RECURSIVE runTranscripts(_, _, _)
\* the state machine after processTranscript took the utterances of a script
\* one after the other, the proposed times given with each
runTranscripts(state, script, proposedTimes) ==
    IF script = << >> THEN state
    ELSE runTranscripts(
             processTranscriptCall(state, Head(script), proposedTimes),
             Tail(script), proposedTimes)

\* C34: a call session driven through processTranscript by a lead who
\* consents, answers the qualification questions so that the predicate holds,
\* selects a proposed time and then confirms reaches End with a BookingIntent
\* whose lead_id is the session's lead and whose explicit_confirmation is
\* true.  Stated for the run of the script from the session's state.
C34_CooperativeLeadReachesEnd ==
    ~isTerminalState(state_machine.current)
    => LET final == runTranscripts(state_machine, SimulatedScript,
                                   <<TimeStr(1), TimeStr(2)>>)
       IN  /\ final.current = "End"
           /\ \E intent \in final.booking_intent :
                 /\ intent.lead_id = state_machine.context.lead_id
                 /\ intent.explicit_confirmation = "true"

\* the rule of scheduleAttempt that comes first, in the order weekly cap,
\* busy short-retry, minimum spacing, time window, among those that apply to
\* the lead's attempts at the time ("none" when none applies)
firstApplicableRule(attempts, region, time) ==
    LET last == getLastAttempt(attempts)
    IN  IF Len(attemptsInWeekOf(attempts, time)) >= 3 THEN "weekly"
        ELSE IF /\ Len(attempts) > 0
                /\ last.outcome = "busy"
                /\ time - last.timestamp < 15
        THEN "busy"
        ELSE IF Len(attempts) > 0 /\ time - last.timestamp < 24 * HourMinutes
        THEN "spacing"
        ELSE IF ~inWindow(region, time) THEN "window"
        ELSE "none"

\* C35: scheduleAttempt applies its rules in the order weekly cap, busy
\* short-retry, minimum spacing, time window and returns the result of the
\* first that applies: WEEKLY_LIMIT_EXCEEDED for a lead at the cap even when
\* the last attempt was busy less than 15 minutes ago, the busy retry as
\* eligible even outside the region's window, INSUFFICIENT_SPACING rather
\* than OUTSIDE_TIME_WINDOW when both apply.  (Asked at times in the week of
\* the clock.)
C35_RulesInFixedOrder ==
    \A leadId \in LeadIds, region \in Regions,
       currentTime \in {NoTs} \cup TimesAfter(wallClock) :
        LET time == nowOf(wallClock, currentTime)
            attempts == attemptStore[leadId]
            rule == firstApplicableRule(attempts, region, time)
            r == scheduleAttempt(attemptStore, wallClock, leadId, region,
                                 currentTime)
        IN  mondayOf(time) = mondayOf(wallClock)
            => CASE rule = "weekly" ->
                        /\ ~r.eligible
                        /\ r.block_reason = "WEEKLY_LIMIT_EXCEEDED"
                 [] rule = "busy" ->
                        /\ r.eligible
                        /\ r.block_reason = Undefined
                        /\ r.retry_after_ts
                              = getLastAttempt(attempts).timestamp + 15
                 [] rule = "spacing" ->
                        /\ ~r.eligible
                        /\ r.block_reason = "INSUFFICIENT_SPACING"
                 [] rule = "window" ->
                        /\ ~r.eligible
                        /\ r.block_reason = "OUTSIDE_TIME_WINDOW"
                 [] OTHER ->
                        /\ r.eligible
                        /\ r.retry_after_ts = NoTs

\* a lead has three attempts in the week of the clock, the last of them busy
\* less than 15 minutes ago, and is blocked for the weekly limit
C35_Witness ==
    \E leadId \in LeadIds :
        LET attempts == attemptStore[leadId]
        IN  /\ Len(attemptsInWeekOf(attempts, wallClock)) = 3
            /\ getLastAttempt(attempts).outcome = "busy"
            /\ wallClock - getLastAttempt(attempts).timestamp = 5
            /\ scheduleAttempt(attemptStore, wallClock, leadId, "US_EAST",
                               NoTs).block_reason = "WEEKLY_LIMIT_EXCEEDED"

\* ================================================== hold expiry claims
\* the live reservations of the hold's manager, the hold itself left out,
\* that lie within the buffer of the interval
otherConflicts(id, start, end) ==
    {x \in Conflicting(holdStore[id].hold.manager_id, start, end) :
        ~(x.kind = "hold" /\ x.key = id)}

\* no hold of the stores has expired at the time
noExpiredHold(cal, time) ==
    /\ \A id \in DOMAIN cal.holdStore : cal.holdStore[id].expires_at > time
    /\ \A m \in ManagerIds : \A i \in DOMAIN cal.managerHolds[m] :
          cal.managerHolds[m][i].expires_at > time

\* C36: a stored hold blocks getAvailability, placeHold and createEvent
\* exactly while the time is earlier than its creation time plus ttl_seconds:
\* where nothing else lies within the buffer, the slot of the hold is reported
\* available, and a hold of the same interval and an event ten minutes later
\* are accepted, exactly when expires_at <= now; each of these operations
\* leaves no expired hold in the stores, and a hold placed at a time expires
\* ttl_seconds later.
C36_HoldBlocksUntilTtlElapsed ==
    /\ \A id \in DOMAIN holdStore :
          LET hold == holdStore[id].hold
              m == hold.manager_id
              expired == holdStore[id].expires_at <= now
              later == hold.start_utc + GridStepMs
              slots == getAvailabilityCall(calendar, now, m,
                          [from |-> hold.start_utc, to |-> hold.end_utc])
              again == placeHoldCall(calendar, now,
                          [manager_id |-> m, start_utc |-> hold.start_utc,
                           end_utc |-> hold.end_utc, ttl_seconds |-> 300], TRUE)
              event == createEventCall(calendar, now,
                          [meeting_id |-> CHOOSE b \in MeetingIds : TRUE,
                           manager_id |-> m, start_utc |-> later,
                           end_utc |-> later + SlotDurationMs,
                           iCal_uid |-> Undefined], TRUE)
          IN  /\ otherConflicts(id, hold.start_utc, hold.end_utc) = {}
                 => /\ slots.result[1].available = expired
                    /\ again.result.success = expired
                    /\ expired
                         => \E new \in DOMAIN again.cal.holdStore :
                              /\ new \notin DOMAIN holdStore
                              /\ again.cal.holdStore[new].hold.start_utc
                                    = hold.start_utc
                              /\ again.cal.holdStore[new].expires_at
                                    = now + 300 * 1000
              /\ otherConflicts(id, later, later + SlotDurationMs) = {}
                 => event.result.success = expired
              /\ noExpiredHold(slots.cal, now)
              /\ noExpiredHold(again.cal, now)
              /\ noExpiredHold(event.cal, now)
              /\ expired => /\ id \notin DOMAIN slots.cal.holdStore
                             /\ id \notin DOMAIN again.cal.holdStore
                             /\ id \notin DOMAIN event.cal.holdStore
    /\ \A params \in HoldParams :
          LET r == placeHoldCall(calendar, now, params, TRUE)
          IN  r.result.success
              => r.cal.holdStore[r.result.tentative_id].expires_at
                    = now + params.ttl_seconds * 1000

\* a hold whose TTL has elapsed is still in the store, nothing else near it
C36_Witness ==
    \E id \in DOMAIN holdStore :
        /\ holdStore[id].expires_at <= now
        /\ otherConflicts(id, holdStore[id].hold.start_utc,
                          holdStore[id].hold.end_utc) = {}
        /\ otherConflicts(id, holdStore[id].hold.start_utc + GridStepMs,
                          holdStore[id].hold.end_utc + GridStepMs) = {}

reservationsIn(cal, m, time) ==
    {[kind |-> "event", meeting_id |-> cal.managerEvents[m][i].meeting_id,
      tentative_id |-> 0,
      start_utc |-> cal.managerEvents[m][i].start_utc,
      end_utc |-> cal.managerEvents[m][i].end_utc] :
        i \in 1..Len(cal.managerEvents[m])}
    \cup
    {[kind |-> "hold", meeting_id |-> "",
      tentative_id |-> cal.managerHolds[m][i].hold.tentative_id,
      start_utc |-> cal.managerHolds[m][i].hold.start_utc,
      end_utc |-> cal.managerHolds[m][i].hold.end_utc] :
        i \in {j \in 1..Len(cal.managerHolds[m]) :
                  cal.managerHolds[m][j].expires_at > time}}

\* two intervals closer to each other than the 10-minute buffer
conflicting(a, b) ==
    ~(a.end_utc + BUFFER_MS <= b.start_utc \/ b.end_utc + BUFFER_MS <= a.start_utc)

\* the reservations a request obtains: those of the stores it leaves that
\* the stores before it do not hold
obtained(cal, m) == reservationsIn(cal, m, now) \ reservationsIn(calendar, m, now)

\* the stores one more request leaves, whichever request it is: a POST /book,
\* the booking branch of POST /voice/transcript, a placeHold or a createEvent
afterOneRequest ==
    {bookCall(bookState, now, body).cal : body \in BookRequests}
    \cup
    {transcriptBookingCall(bookState, now, "lead-1", managerId, confirmedTime,
                           TRUE).cal :
        managerId \in ManagerIds, confirmedTime \in IntentTimes}
    \cup
    {placeHoldCall(calendar, now,
                   [manager_id |-> managerId, start_utc |-> start,
                    end_utc |-> start + 30 * 60 * 1000, ttl_seconds |-> 1800],
                   TRUE).cal :
        managerId \in ManagerIds, start \in GridTimes}
    \cup
    {createEventCall(calendar, now,
                     [meeting_id |-> CHOOSE id \in MeetingIds :
                                       id \notin DOMAIN eventStore,
                      manager_id |-> managerId, start_utc |-> start,
                      end_utc |-> start + 30 * 60 * 1000, iCal_uid |-> ""],
                     TRUE).cal :
        managerId \in ManagerIds, start \in GridTimes}

\* C37 (as claimed): whatever requests came before, no request obtains a
\* reservation that conflicts under the 10-minute buffer with a reservation
\* of the same manager that is live when the request arrives.
C37_AtMostOneObtains ==
    MeetingIds \ DOMAIN eventStore # {}
    => \A cal \in afterOneRequest : \A m \in ManagerIds :
          \A b \in obtained(cal, m) :
              \A a \in reservationsIn(calendar, m, now) : ~conflicting(a, b)

\* C37 (amended): every request runs as one step; after it no two live
\* reservations of a manager conflict under the 10-minute buffer, and a
\* reservation it obtains conflicts with a reservation that was live before
\* only when it is an event starting within a second of a hold, which the
\* event replaces.
C37_AtMostOneHoldsTheInterval ==
    MeetingIds \ DOMAIN eventStore # {}
    => \A cal \in afterOneRequest : \A m \in ManagerIds :
          /\ \A a, b \in reservationsIn(cal, m, now) :
                a # b => ~conflicting(a, b)
          /\ \A b \in obtained(cal, m) :
                \A a \in reservationsIn(calendar, m, now) :
                    conflicting(a, b)
                    => /\ b.kind = "event"
                       /\ a.kind = "hold"
                       /\ a.start_utc - b.start_utc < 1000
                       /\ b.start_utc - a.start_utc < 1000
                       /\ a \notin reservationsIn(cal, m, now)

\* a manager's slot is held; a transcript booking of the same slot is
\* refused, and a POST /book confirming the slot's start is answered 200 and
\* leaves an event in the place of the hold
C37_Witness ==
    /\ MeetingIds \ DOMAIN eventStore # {}
    /\ \E m \in ManagerIds : \E a \in reservationsIn(calendar, m, now) :
          /\ a.kind = "hold"
          /\ ~transcriptBookingCall(bookState, now, "lead-2", m, a.start_utc,
                                    TRUE).hold_success
          /\ \E body \in BookRequests :
                LET r == bookCall(bookState, now, body)
                IN  /\ body.manager_id = m
                    /\ r.status = 200
                    /\ \E b \in obtained(r.cal, m) :
                          b.kind = "event" /\ b.start_utc = a.start_utc
                    /\ a \notin reservationsIn(r.cal, m, now)

\* the last minute of each region's window on the day of a time
WindowLastMinutes(time) ==
    {setUTCHours(time, (getTimeWindow(region).end + 23) % 24) + 59 :
        region \in Regions}

\* the store once recordAttempt has added an attempt of the lead at a time
withAttemptAt(store, leadId, timestamp, outcome) ==
    [store EXCEPT ![leadId] =
        Append(@, [lead_id |-> leadId,
                   attempt_no |-> getNextAttemptNo(store[leadId]),
                   timestamp |-> timestamp, outcome |-> outcome])]

\* a blocked result names an instant after `time` whose hour scheduleAttempt
\* would find inside the region's window
pointsIntoWindow(r, region, time) ==
    ~r.eligible
    => /\ r.block_reason \in {"WEEKLY_LIMIT_EXCEEDED", "INSUFFICIENT_SPACING",
                              "OUTSIDE_TIME_WINDOW"}
       /\ r.next_attempt_ts > time
       /\ inWindow(region, r.next_attempt_ts)

\* C39: every blocked scheduleAttempt result carries a next_attempt_ts later
\* than now whose UTC hour lies inside the region's window, also when the
\* time computed is the last minute of the window and when the window wraps
\* past midnight.
C39_BlockedResultPointsIntoWindow ==
    \A leadId \in LeadIds, region \in Regions :
        /\ \A currentTime \in GivenTimes(wallClock) \cup TimesOfDay(wallClock) :
              pointsIntoWindow(
                  scheduleAttempt(attemptStore, wallClock, leadId, region,
                                  currentTime),
                  region, nowOf(wallClock, currentTime))
        /\ \A T \in WindowLastMinutes(wallClock) :
              pointsIntoWindow(
                  scheduleAttempt(
                      withAttemptAt(attemptStore, leadId, T, "no_answer"),
                      wallClock, leadId, region, T + 1),
                  region, T + 1)

\* a caller asks scheduleAttempt with a time as currentTime and, when the
\* answer is eligible, records the attempt at that time under the attempt_no
\* returned: the store it leaves
recordIfEligible(store, clock, leadId, region, time, outcome) ==
    LET r == scheduleAttempt(store, clock, leadId, region, time)
    IN  IF r.eligible
        THEN [store EXCEPT ![leadId] =
                 Append(@, [lead_id |-> leadId, attempt_no |-> r.attempt_no,
                            timestamp |-> time, outcome |-> outcome])]
        ELSE store

\* the store after the caller has done so at each time of a sequence
RECURSIVE recordEach(_, _, _, _, _, _)
recordEach(store, clock, leadId, region, times, outcome) ==
    IF times = << >> THEN store
    ELSE recordEach(recordIfEligible(store, clock, leadId, region,
                                     Head(times), outcome),
                    clock, leadId, region, Tail(times), outcome)

\* no ISO week holds more than three of the attempts
weeklyCapKept(attempts) ==
    \A i \in DOMAIN attempts :
        Len(attemptsInWeekOf(attempts, attempts[i].timestamp)) <= 3

\* the times of four further attempts: in quick succession from the clock's
\* instant on, and on the first four days of the week after the clock's
FurtherAttemptTimes(clock) ==
    {<<clock, clock + 5, clock + 10, clock + 15>>,
     <<clock, clock + 14, clock + DayMinutes, clock + DayMinutes + 14>>,
     [k \in 1..4 |->
        mondayOf(clock) + WeekMinutes + (k - 1) * DayMinutes
            + 13 * HourMinutes]}

\* C40: when attempts are recorded only at times at which scheduleAttempt,
\* called with that time as now, answered eligible, and under the attempt_no
\* it returned, no lead has more than three attempts in one ISO week,
\* whatever their outcomes.
C40_AtMostThreeAttemptsPerWeek ==
    \A leadId \in LeadIds :
        /\ weeklyCapKept(attemptStore[leadId])
        /\ \A times \in FurtherAttemptTimes(wallClock),
              outcome \in RecordedOutcomes :
              weeklyCapKept(recordEach(attemptStore, wallClock, leadId,
                                       "DEFAULT", times, outcome)[leadId])

====
